---------------------------- MODULE Spec2Model ----------------------------
(***************************************************************************)
(* A model of the mock configuration loader and chart product manager of   *)
(* go_k8s_helm.  Go strings are sequences of one-character strings, Go     *)
(* maps are functions, and a nil map or a nil error is the value Nil.      *)
(***************************************************************************)
EXTENDS Integers, Sequences, FiniteSets, TLC

VARIABLES
    \* resolveValue: the arguments, the result, the number of applications
    rawValue, context, resolvedValue, passes,
    \* resolveConfigMap: the maps by reference, the arguments, the returned
    \* reference (0 before the call), the maps as they were before the call
    heap, rawConfig, primaryContext, resolved, heapBefore,
    \* Load and the LoadedConfig methods: the arguments, the configuration files
    \* on disk, the clock, the maps by reference, the LoadedConfig, the returned
    \* error, where the caller stands, the results of ToJSON, ToMap and
    \* SaveAsJSON, the files written
    opts, files, now, lheap, lc, loadErr, loadPc, jsonOut, mapOut, saveOut, disk,
    \* Load called by several goroutines: the maps by reference, each call with
    \* its position, its LoadedConfig and what it returned
    goHeap, loads,
    \* FileSystemProductManager: the manager, the chart trees on disk, the
    \* arguments of InstantiateProduct, its result, the call of
    \* ExtractVariablesFromPath and its result, the call of ValidateChartFiles
    \* and its result
    pm, charts, instArgs, instOut, extOut, validateOut,
    \* FileSystemBackupManager: the manager, the Helm client with the calls made
    \* to it, the arguments and the result of RestoreRelease / UpgradeToBackup,
    \* the clock, the calls of ListBackups and PruneBackups with their results
    bm, helmClient, restoreArgs, restoreOut, clock, backupLog,
    \* backupctl: the command line, the auth checker, what the command did
    osArgs, k8sAuth, cliOut,
    \* the value loaders of the command line tools: the arguments, the results
    valuesArgs, valuesOut,
    \* helmutils.NewClient: the auth checker, the other arguments, the namespace
    \* of the environment (HELM_NAMESPACE), the result with the calls made to
    \* the auth checker and the messages logged
    authChecker, newClientArgs, helmEnv, newClientOut,
    \* AuthUtil.CheckNamespacePermissions: the AuthUtil, the arguments, the result
    \* with the access reviews created
    authUtil, permArgs, permOut

resolveVars == <<rawValue, context, resolvedValue, passes>>

configMapVars == <<heap, rawConfig, primaryContext, resolved, heapBefore>>

loadVars ==
    <<opts, files, now, lheap, lc, loadErr, loadPc, jsonOut, mapOut, saveOut, disk>>

loadsVars == <<goHeap, loads>>

productVars == <<pm, charts, instArgs, instOut, extOut, validateOut>>

backupVars == <<bm, helmClient, restoreArgs, restoreOut, clock, backupLog>>

backupctlVars == <<osArgs, k8sAuth, cliOut>>

valuesVars == <<valuesArgs, valuesOut>>

helmVars == <<authChecker, newClientArgs, helmEnv, newClientOut>>

authVars == <<authUtil, permArgs, permOut>>

\* The packages helmutils and k8sutils.
clusterVars == <<helmVars, authVars>>

\* The packages: configloader and chartconfigmanager.
libVars == <<resolveVars, configMapVars, loadVars, loadsVars, productVars>>

\* The backup manager and the command line tools.
toolVars == <<backupVars, backupctlVars, valuesVars, clusterVars>>

vars == <<libVars, loadsVars, toolVars>>

(***************************************************************************)
(* Bounds of the model.                                                    *)
(***************************************************************************)
\* Longest enumerated template handed to resolveValue.
MaxLen == 4
\* Number of times resolveValue is applied to its own output.
MaxPasses == 3
\* Number of distinct keys in the maps handed to resolveConfigMap.
MaxCfgKeys == 2

Nil == "nil"
NL == "\n"

(***************************************************************************)
(* Strings of the tests of resolveValue.                                   *)
(***************************************************************************)
sNAME == <<"N", "A", "M", "E">>
sVERSION == <<"V", "E", "R", "S", "I", "O", "N">>
sPROJECT == <<"P", "R", "O", "J", "E", "C", "T">>
sFULLNAME == <<"F", "U", "L", "L", "N", "A", "M", "E">>
sGREETING == <<"G", "R", "E", "E", "T", "I", "N", "G">>
sSELF == <<"S", "E", "L", "F">>
sA == <<"A">>
sB == <<"B">>
sC == <<"C">>
sGoLang == <<"G", "o", "L", "a", "n", "g">>
sVersionNo == <<"1", ".", "2", "1">>
sConfigLoader == <<"C", "o", "n", "f", "i", "g", "L", "o", "a", "d", "e", "r">>
sFullNameTpl == <<"$", "{", "P", "R", "O", "J", "E", "C", "T", "}", " ", "v", "$", "{", "V", "E", "R", "S", "I", "O", "N", "}">>
sHello == <<"H", "e", "l", "l", "o", ",", " ", "$", "N", "A", "M", "E", "!">>
sRefSELF == <<"$", "{", "S", "E", "L", "F", "}">>
sRefA == <<"$", "{", "A", "}">>
sRefB == <<"$", "{", "B", "}">>
sRefC == <<"$", "{", "C", "}">>
sResolvedC == <<"r", "e", "s", "o", "l", "v", "e", "d", "_", "c">>
sRefNAME == <<"$", "{", "N", "A", "M", "E", "}">>
sProjectTpl == <<"P", "r", "o", "j", "e", "c", "t", ":", " ", "$", "{", "P", "R", "O", "J", "E", "C", "T", "}">>
sRefFULLNAME == <<"$", "{", "F", "U", "L", "L", "N", "A", "M", "E", "}">>
sBareGREETING == <<"$", "G", "R", "E", "E", "T", "I", "N", "G">>
sBareNAME == <<"V", "a", "l", "u", "e", ":", " ", "$", "N", "A", "M", "E">>
sAlpha == <<"a", "l", "p", "h", "a">>
sBeta == <<"b", "e", "t", "a">>
sXAY == <<"X", " ", "$", "{", "A", "}", " ", "Y">>

\* The context of TestResolveValue.
TestContext ==
    (sNAME :> sGoLang) @@ (sVERSION :> sVersionNo) @@ (sPROJECT :> sConfigLoader)
    @@ (sFULLNAME :> sFullNameTpl) @@ (sGREETING :> sHello) @@ (sSELF :> sRefSELF)
    @@ (sA :> sRefB) @@ (sB :> sRefC) @@ (sC :> sResolvedC)

\* The context of TestResolveValue_Mock.
MockContext == (sA :> sAlpha) @@ (sB :> sBeta)

\* The templates of TestResolveValue and TestResolveValue_Mock.
TestTemplates ==
    {sRefNAME, sProjectTpl, sRefFULLNAME, sBareGREETING, sHello, sBareNAME,
     sRefSELF, sRefA, sRefC, sXAY}

\* Further templates: a known and an unknown token side by side, a "${" inside
\* a token, a newline inside braces, a bare $A beside a token.
sMixed == <<"$", "{", "A", "}", "-", "$", "{", "Z", "}">>
sNested == <<"$", "{", "$", "{", "A", "}">>
sBroken == <<"$", "{", "A", NL, "}", "$", "{", "B", "}">>
sBareBeside == <<"$", "A", "$", "{", "A", "}", "$", "B">>

ExtraTemplates == {sMixed, sNested, sBroken, sBareBeside}

EmptyMap == [k \in {} |-> <<>>]

\* The characters of the enumerated templates.
Chars == {"$", "{", "}", "A", "B", NL}

Templates ==
    UNION {[1..n -> Chars] : n \in 0..MaxLen} \cup TestTemplates \cup ExtraTemplates

\* Contexts: keys are variable names (no "$", "{", "}" or newline in them).
Contexts == {EmptyMap, MockContext, TestContext, (sA :> <<"$", "{", "A", "}", "B">>)}

(***************************************************************************)
(* resolveValue: regexp \${(.*?)} with ReplaceAllStringFunc.               *)
(***************************************************************************)
HasPrefix(s, p) == Len(s) >= Len(p) /\ SubSeq(s, 1, Len(p)) = p

HasSuffix(s, p) == Len(s) >= Len(p) /\ SubSeq(s, Len(s) - Len(p) + 1, Len(s)) = p

TrimPrefix(s, p) == IF HasPrefix(s, p) THEN SubSeq(s, Len(p) + 1, Len(s)) ELSE s

TrimSuffix(s, p) == IF HasSuffix(s, p) THEN SubSeq(s, 1, Len(s) - Len(p)) ELSE s

\* (.*?)} from position j: the index of the first "}" at or after j that no
\* newline precedes, 0 when there is none ("." matches no newline).
RECURSIVE LazyClose(_, _)
LazyClose(s, j) ==
    IF j > Len(s) THEN 0
    ELSE IF s[j] = "}" THEN j
    ELSE IF s[j] = NL THEN 0
    ELSE LazyClose(s, j + 1)

\* The end of the match of the regexp that starts at position i, 0 when none.
MatchEnd(s, i) ==
    IF i + 1 <= Len(s) /\ s[i] = "$" /\ s[i + 1] = "{" THEN LazyClose(s, i + 2) ELSE 0

\* Faulty variant: a token whose name is unknown is replaced by the empty string.
ReplacementDropUnknown(match, ctx) ==
    LET varName == TrimSuffix(TrimPrefix(match, <<"$", "{">>), <<"}">>)
    IN IF varName \in DOMAIN ctx THEN ctx[varName] ELSE <<>>

\* The replacement function handed to ReplaceAllStringFunc.
Replacement(match, ctx) ==
    LET varName == TrimSuffix(TrimPrefix(match, <<"$", "{">>), <<"}">>)
    IN IF varName \in DOMAIN ctx THEN ctx[varName] ELSE match

\* ReplaceAllStringFunc from position i: leftmost matches, left to right, none
\* overlapping; the text between matches is copied.
RECURSIVE ReplaceAllStringFunc(_, _, _)
ReplaceAllStringFunc(s, ctx, i) ==
    IF i > Len(s) THEN <<>>
    ELSE LET e == MatchEnd(s, i)
         IN IF e = 0
            THEN <<s[i]>> \o ReplaceAllStringFunc(s, ctx, i + 1)
            ELSE Replacement(SubSeq(s, i, e), ctx) \o ReplaceAllStringFunc(s, ctx, e + 1)

\* Faulty variant: the replacement is scanned again.
resolveValueRescan(raw, ctx) ==
    ReplaceAllStringFunc(ReplaceAllStringFunc(raw, ctx, 1), ctx, 1)

\* Faulty variant: the unbraced form $N is substituted too.
RECURSIVE ReplaceBare(_, _, _)
ReplaceBare(s, ctx, i) ==
    IF i > Len(s) THEN <<>>
    ELSE IF i + 1 <= Len(s) /\ s[i] = "$" /\ <<s[i + 1]>> \in DOMAIN ctx
         THEN ctx[<<s[i + 1]>>] \o ReplaceBare(s, ctx, i + 2)
         ELSE <<s[i]>> \o ReplaceBare(s, ctx, i + 1)

resolveValueBare(raw, ctx) == ReplaceBare(ReplaceAllStringFunc(raw, ctx, 1), ctx, 1)

resolveValue(raw, ctx) == ReplaceAllStringFunc(raw, ctx, 1)

(***************************************************************************)
(* Calls of resolveValue.                                                  *)
(***************************************************************************)
IdleResolve ==
    /\ rawValue = <<>>
    /\ context = EmptyMap
    /\ resolvedValue = <<>>
    /\ passes = 0

IdleConfigMap ==
    /\ heap = <<>>
    /\ rawConfig = 0
    /\ primaryContext = 0
    /\ resolved = 0
    /\ heapBefore = <<>>

NoOptions ==
    [BasePath |-> "", CustomFilePaths |-> <<>>, Environment |-> "",
     EnableDatabaseGrouping |-> FALSE]

\* A nil *LoadedConfig.
NilLoadedConfig ==
    [ptr |-> 0, Main |-> 0, DatabaseConfigs |-> 0, Metadata |-> 0,
     rawMainConfig |-> 0, rawDatabaseConfigs |-> 0, opts |-> NoOptions]

NoJSON == [called |-> FALSE, data |-> <<>>, err |-> Nil]

NoMap == [called |-> FALSE, outputMap |-> EmptyMap]

NoSave == [called |-> FALSE, filePath |-> <<>>, err |-> Nil]

EmptyDisk == [dirs |-> {}, files |-> EmptyMap]

IdleLoads ==
    /\ goHeap = <<>>
    /\ loads = EmptyMap

IdleLoad ==
    /\ IdleLoads
    /\ opts = NoOptions
    /\ files = EmptyMap
    /\ now = ""
    /\ lheap = <<>>
    /\ lc = NilLoadedConfig
    /\ loadErr = Nil
    /\ loadPc = "idle"
    /\ jsonOut = NoJSON
    /\ mapOut = NoMap
    /\ saveOut = NoSave
    /\ disk = EmptyDisk

NoError == [nil |-> TRUE, msg |-> "", args |-> <<>>]

\* fmt.Errorf(msg, args...)
Errorf(msg, args) == [nil |-> FALSE, msg |-> msg, args |-> args]

NoInstantiateArgs ==
    [productNameOrPath |-> <<>>, variables |-> EmptyMap, outputPath |-> <<>>,
     unassignedVarAction |-> ""]

NoInstantiate == [called |-> FALSE, instantiatedPath |-> <<>>, err |-> NoError]

NoExtract == [called |-> FALSE, path |-> <<>>, vars |-> <<>>, err |-> NoError]

NoValidate == [called |-> FALSE, chartPath |-> <<>>, err |-> NoError]

IdleProduct ==
    /\ pm = [baseProductsPath |-> <<>>, InstantiateProductFunc |-> Nil,
             ExtractVariablesFromPathFunc |-> Nil, ValidateChartFilesFunc |-> Nil]
    /\ charts = EmptyMap
    /\ instArgs = NoInstantiateArgs
    /\ instOut = NoInstantiate
    /\ extOut = NoExtract
    /\ validateOut = NoValidate

\* A FileSystemBackupManager with no function installed.
NoBackupManager ==
    [baseBackupPath |-> "", logger |-> Nil, BackupReleaseFunc |-> Nil,
     GetBackupDetailsFunc |-> Nil, RestoreReleaseFunc |-> Nil, UpgradeToBackupFunc |-> Nil,
     ListBackupsFunc |-> Nil, DeleteBackupFunc |-> Nil, PruneBackupsFunc |-> Nil]

\* A mockHelmClient with no function installed and no call made.
NoHelmClient ==
    [UninstallReleaseFunc |-> Nil, InstallChartFunc |-> Nil, UpgradeReleaseFunc |-> Nil,
     calls |-> <<>>]

NoRestoreArgs ==
    [op |-> "", namespace |-> "", releaseName |-> "", backupID |-> "",
     createNamespace |-> FALSE, wait |-> FALSE, force |-> FALSE]

\* A nil *helmutils.ReleaseInfo.
NilReleaseInfo == [ptr |-> 0, Name |-> "", Namespace |-> "", Revision |-> 0, Status |-> ""]

NoRestore ==
    [called |-> FALSE, details |-> Nil, rel |-> NilReleaseInfo, err |-> NoError,
     logged |-> <<>>, panicked |-> FALSE]

IdleBackup ==
    /\ bm = NoBackupManager
    /\ helmClient = NoHelmClient
    /\ restoreArgs = NoRestoreArgs
    /\ restoreOut = NoRestore
    /\ clock = 0
    /\ backupLog = <<>>

\* An auth checker by what its GetCurrentNamespace returns.
NoAuthChecker == [namespace |-> <<>>, fails |-> FALSE]

NoCommand == [done |-> FALSE]

IdleBackupctl ==
    /\ osArgs = <<>>
    /\ k8sAuth = NoAuthChecker
    /\ cliOut = NoCommand

NoValuesCall == [called |-> FALSE, isNil |-> TRUE, values |-> EmptyMap, err |-> NoError]

NoValues == [backupctl |-> NoValuesCall, productctl |-> NoValuesCall, helmctl |-> NoValuesCall]

IdleValues ==
    /\ valuesArgs = [valuesFile |-> "", setValues |-> <<>>]
    /\ valuesOut = NoValues

\* A MockK8sAuthChecker by what its mocked functions return; an empty field
\* is a function that is not mocked.
NotMocked == [mocked |-> FALSE, value |-> "", fails |-> FALSE]

NoMockK8sAuthChecker == [MockGetCurrentNamespace |-> NotMocked, MockGetKubeConfig |-> NotMocked]

NilClient == [isNil |-> TRUE, settings |-> [namespace |-> ""], baseKubeConfig |-> ""]

NoNewClient ==
    [called |-> FALSE, client |-> NilClient, err |-> NoError, calls |-> <<>>, log |-> <<>>]

IdleHelm ==
    /\ authChecker = NoMockK8sAuthChecker
    /\ newClientArgs = [defaultNamespace |-> "", logger |-> Nil]
    /\ helmEnv = ""
    /\ newClientOut = NoNewClient

\* A clientset by the verbs whose access review fails; no reactor is installed
\* in the clientset of fake.NewSimpleClientset().
SimpleClientset == [isNil |-> FALSE, reactor |-> FALSE, failing |-> {}]

NilClientset == [isNil |-> TRUE, reactor |-> FALSE, failing |-> {}]

NoAuthUtil ==
    [clientset |-> NilClientset, GetClientsetFunc |-> Nil, CheckNamespacePermissionsFunc |-> Nil]

NoPermArgs == [namespace |-> "", resource |-> "", verbs |-> <<>>]

NoPermissions ==
    [called |-> FALSE, isNil |-> TRUE, results |-> EmptyMap, err |-> NoError, reviews |-> <<>>]

IdleAuth ==
    /\ authUtil = NoAuthUtil
    /\ permArgs = NoPermArgs
    /\ permOut = NoPermissions

IdleCluster ==
    /\ IdleHelm
    /\ IdleAuth

IdleTools ==
    /\ IdleBackup
    /\ IdleBackupctl
    /\ IdleValues
    /\ IdleCluster

InitResolve ==
    /\ IdleTools
    /\ rawValue \in Templates
    /\ context \in Contexts
    /\ resolvedValue = <<>>
    /\ passes = 0
    /\ IdleConfigMap
    /\ IdleLoad
    /\ IdleProduct

\* resolvedValue := resolveValue(rawValue, context)
CallResolveValue ==
    /\ passes = 0
    /\ resolvedValue' = resolveValue(rawValue, context)
    /\ passes' = 1
    /\ UNCHANGED <<rawValue, context, configMapVars, loadVars, productVars, loadsVars, toolVars>>

\* resolvedValue := resolveValue(resolvedValue, context)
CallResolveValueAgain ==
    /\ passes >= 1
    /\ passes < MaxPasses
    /\ resolvedValue' = resolveValue(resolvedValue, context)
    /\ passes' = passes + 1
    /\ UNCHANGED <<rawValue, context, configMapVars, loadVars, productVars, loadsVars, toolVars>>

NextResolve == CallResolveValue \/ CallResolveValueAgain

SpecResolve == InitResolve /\ [][NextResolve]_vars

(***************************************************************************)
(* Properties of resolveValue.                                             *)
(***************************************************************************)
RECURSIVE Flatten(_, _)
Flatten(pieces, n) == IF n = 0 THEN <<>> ELSE Flatten(pieces, n - 1) \o pieces[n]

\* The places <<i, j>> where a "${" at i is closed by the first "}" after it
\* on the same line.
TokenCandidates(t) ==
    {c \in (1..Len(t)) \X (1..Len(t)) :
        /\ c[1] + 2 <= c[2]
        /\ t[c[1]] = "$" /\ t[c[1] + 1] = "{" /\ t[c[2]] = "}"
        /\ \A k \in (c[1] + 2)..(c[2] - 1) : t[k] \notin {"}", NL}}

\* The tokens of t: the candidates that start outside every earlier token.
ScanTokens(t) ==
    CHOOSE S \in SUBSET TokenCandidates(t) :
        \A c \in TokenCandidates(t) :
            c \in S <=> ~ \E d \in S : d[1] < c[1] /\ c[1] <= d[2]

\* What each position of t contributes to the output.
Expected(t, ctx) ==
    LET toks == ScanTokens(t)
        piece(p) ==
            IF \E tok \in toks : tok[1] = p
            THEN LET tok == CHOOSE tk \in toks : tk[1] = p
                     name == SubSeq(t, p + 2, tok[2] - 1)
                 IN IF name \in DOMAIN ctx THEN ctx[name] ELSE SubSeq(t, p, tok[2])
            ELSE IF \E tok \in toks : tok[1] < p /\ p <= tok[2] THEN <<>>
            ELSE <<t[p]>>
    IN Flatten([p \in 1..Len(t) |-> piece(p)], Len(t))

Token(name) == <<"$", "{">> \o name \o <<"}">>

\* The key whose token ${key} stands at position i of t, if any.
KeysAt(t, ctx, i) ==
    {k \in DOMAIN ctx : i + Len(k) + 2 <= Len(t) /\ SubSeq(t, i, i + Len(k) + 2) = Token(k)}

\* Every occurrence of ${key} replaced, whatever surrounds it.
RECURSIVE EveryKeyToken(_, _, _)
EveryKeyToken(t, ctx, i) ==
    IF i > Len(t) THEN <<>>
    ELSE IF KeysAt(t, ctx, i) # {}
         THEN LET k == CHOOSE k \in KeysAt(t, ctx, i) : TRUE
              IN ctx[k] \o EveryKeyToken(t, ctx, i + Len(k) + 3)
         ELSE <<t[i]>> \o EveryKeyToken(t, ctx, i + 1)

\* C1 as stated: resolveValue replaces each ${NAME} whose NAME is a key of the
\* context by the key's value and leaves all other text unchanged.
C1_EveryKeyTokenReplaced ==
    passes = 1 => resolvedValue = EveryKeyToken(rawValue, context, 1)

\* C1 amended: the tokens are those of a left-to-right scan, each running from a
\* "${" to the first "}" after it on the same line, its NAME being all the text
\* between; a token whose NAME is a key is replaced by the key's value, every
\* other token and all text outside tokens is unchanged.
C1_ScannedTokensReplaced ==
    passes = 1 => resolvedValue = Expected(rawValue, context)

C1_Witness ==
    /\ passes = 1
    /\ rawValue = sMixed
    /\ context = MockContext
    /\ resolvedValue = sAlpha \o <<"-", "$", "{", "Z", "}">>

\* C2: one pass only. A template that is exactly the token of a key yields the
\* key's value verbatim, tokens in it included: ${SELF} with SELF -> ${SELF}
\* yields ${SELF}, ${A} with A -> ${B} yields ${B}; and every match is at least
\* three characters long, so the scan advances and ends.
C2_SinglePass ==
    passes = 1 =>
        /\ \A n \in DOMAIN context : rawValue = Token(n) => resolvedValue = context[n]
        /\ (context = TestContext /\ rawValue = sRefSELF) => resolvedValue = sRefSELF
        /\ (context = TestContext /\ rawValue = sRefA) => resolvedValue = sRefB
        /\ \A i \in 1..Len(rawValue) :
              MatchEnd(rawValue, i) # 0 => MatchEnd(rawValue, i) >= i + 2

C2_Witness ==
    /\ passes = 1
    /\ context = TestContext
    /\ rawValue = sRefA
    /\ resolvedValue = sRefB

NameChars == {"A", "B", "C", "G", "N"}

C4_TwoPassesResolveChain ==
    (context = TestContext /\ rawValue = sRefA) =>
        /\ passes = 1 => resolvedValue = sRefB
        /\ passes = 2 => resolvedValue = sResolvedC

\* C4 amended: one application yields ${B}, two yield ${C}, and only the third
\* yields resolved_c.
C4_ThreePassesResolveChain ==
    (context = TestContext /\ rawValue = sRefA) =>
        /\ passes = 1 => resolvedValue = sRefB
        /\ passes = 2 => resolvedValue = sRefC
        /\ passes = 3 => resolvedValue = sResolvedC

C4_Witness ==
    /\ context = TestContext
    /\ rawValue = sRefA
    /\ passes = 3
    /\ resolvedValue = sResolvedC

(***************************************************************************)
(* resolveConfigMap.  Go maps are references: heap[r] is the map behind the *)
(* reference r, and make(map) appends an empty map to the heap.            *)
(***************************************************************************)
KeyPool == <<sA, sB, sC>>

CfgKeys == {KeyPool[i] : i \in 1..MaxCfgKeys}

CfgValues == {<<"1">>, sRefA, <<"x">> \o sRefB}

ConfigMaps == UNION {[D -> CfgValues] : D \in SUBSET CfgKeys}

\* for k, v := range src { dst[k] = v }
CopyInto(dst, src) ==
    [k \in DOMAIN dst \cup DOMAIN src |-> IF k \in DOMAIN src THEN src[k] ELSE dst[k]]

\* Faulty variant: the primary context is copied last, so it wins over rawConfig.
resolveConfigMapPrimaryWins(h, raw, prim) ==
    LET resolvedRef == Len(h) + 1
        combined == CopyInto(CopyInto(EmptyMap, h[raw]), h[prim])
        values == [k \in DOMAIN h[raw] |-> resolveValue(h[raw][k], combined)]
    IN [heap |-> h \o <<values, combined>>, ret |-> resolvedRef]

\* Faulty variant: the resolved values are written back into rawConfig, which is returned.
resolveConfigMapInPlace(h, raw, prim) ==
    LET combined == CopyInto(CopyInto(EmptyMap, h[prim]), h[raw])
        values == [k \in DOMAIN h[raw] |-> resolveValue(h[raw][k], combined)]
    IN [heap |-> [h EXCEPT ![raw] = values] \o <<combined>>, ret |-> raw]

\* resolveConfigMap(rawConfig, primaryContext, sectionName, logPrefix); the last
\* two parameters are not used by the code. The result is the heap after the
\* call and the returned reference.
resolveConfigMap(h, raw, prim) ==
    LET h1 == Append(h, EmptyMap)
        resolvedRef == Len(h1)
        h2 == Append(h1, EmptyMap)
        combinedContext == Len(h2)
        h3 == [h2 EXCEPT ![combinedContext] = CopyInto(@, h2[prim])]
        h4 == [h3 EXCEPT ![combinedContext] = CopyInto(@, h3[raw])]
        h5 == [h4 EXCEPT ![resolvedRef] =
                  [k \in DOMAIN h4[raw] |-> resolveValue(h4[raw][k], h4[combinedContext])]]
    IN [heap |-> h5, ret |-> resolvedRef]

InitConfigMap ==
    /\ IdleTools
    /\ heap \in [1..2 -> ConfigMaps]
    /\ heapBefore = heap
    /\ rawConfig \in 1..2
    /\ primaryContext \in 1..2
    /\ resolved = 0
    /\ IdleResolve
    /\ IdleLoad
    /\ IdleProduct

\* resolved := resolveConfigMap(rawConfig, primaryContext, ...)
CallResolveConfigMap ==
    /\ resolved = 0
    /\ LET r == resolveConfigMap(heap, rawConfig, primaryContext)
       IN /\ heap' = r.heap
          /\ resolved' = r.ret
    /\ UNCHANGED <<rawConfig, primaryContext, heapBefore, resolveVars, loadVars, productVars, loadsVars, toolVars>>

NextConfigMap == CallResolveConfigMap

SpecConfigMap == InitConfigMap /\ [][NextConfigMap]_vars

(***************************************************************************)
(* Properties of resolveConfigMap.                                         *)
(***************************************************************************)
\* primaryContext overlaid by rawConfig.
Overlay(raw, prim) ==
    [n \in DOMAIN prim \cup DOMAIN raw |-> IF n \in DOMAIN raw THEN raw[n] ELSE prim[n]]

\* C5: the result has exactly the keys of rawConfig, each value is rawConfig's
\* value resolved against primaryContext overlaid by rawConfig, and a value that
\* is the token of a name present in both maps resolves to rawConfig's value.
C5_OverlayResolves ==
    resolved # 0 =>
        LET raw == heapBefore[rawConfig]
            prim == heapBefore[primaryContext]
            res == heap[resolved]
        IN /\ DOMAIN res = DOMAIN raw
           /\ \A k \in DOMAIN raw : res[k] = resolveValue(raw[k], Overlay(raw, prim))
           /\ \A k \in DOMAIN raw : \A n \in DOMAIN raw \cap DOMAIN prim :
                 raw[k] = Token(n) => res[k] = raw[n]
           /\ \A k \in DOMAIN raw : \A n \in DOMAIN prim \ DOMAIN raw :
                 raw[k] = Token(n) => res[k] = prim[n]

C5_Witness ==
    /\ resolved # 0
    /\ rawConfig # primaryContext
    /\ \E k \in DOMAIN heapBefore[rawConfig] :
       \E n \in DOMAIN heapBefore[rawConfig] \cap DOMAIN heapBefore[primaryContext] :
          /\ k # n
          /\ heapBefore[rawConfig][k] = Token(n)
          /\ heapBefore[rawConfig][n] # heapBefore[primaryContext][n]
          /\ heap[resolved][k] = heapBefore[rawConfig][n]

\* C6: every map that existed before the call, rawConfig and primaryContext
\* among them, is unchanged after it, and the returned map is a new one, also
\* when the same map is passed as both arguments.
C6_InputsUnchanged ==
    resolved # 0 =>
        /\ \A r \in DOMAIN heapBefore : heap[r] = heapBefore[r]
        /\ resolved \notin DOMAIN heapBefore
        /\ resolved \notin {rawConfig, primaryContext}

C6_Witness ==
    /\ resolved # 0
    /\ rawConfig = primaryContext
    /\ heap[resolved] # heap[rawConfig]
    /\ heap[rawConfig] = heapBefore[rawConfig]

(***************************************************************************)
(* Load, LoadWithDefaults and the methods of LoadedConfig.  The maps of a   *)
(* LoadedConfig are references into lheap; the reference 0 is a nil map.    *)
(***************************************************************************)
sMockKeyMain == <<"m", "o", "c", "k", "_", "k", "e", "y", "_", "m", "a", "i", "n">>
sMockValueMain == <<"m", "o", "c", "k", "_", "v", "a", "l", "u", "e", "_", "m", "a", "i", "n">>
sAnotherKey == <<"a", "n", "o", "t", "h", "e", "r", "_", "k", "e", "y">>
sAnotherValue == <<"a", "n", "o", "t", "h", "e", "r", "_", "v", "a", "l", "u", "e">>
sVar1 == <<"v", "a", "r", "1">>
sValue1 == <<"v", "a", "l", "u", "e", "1">>
sVar2 == <<"v", "a", "r", "2">>
sVar2Tpl == <<"$", "{", "v", "a", "r", "1", "}", "_", "v", "a", "l", "u", "e", "2">>
sMockdb == <<"m", "o", "c", "k", "d", "b">>
sHost == <<"h", "o", "s", "t">>
sLocalhost == <<"l", "o", "c", "a", "l", "h", "o", "s", "t">>
sPort == <<"p", "o", "r", "t">>
s5432 == <<"5", "4", "3", "2">>
sInstallConf == <<"i", "n", "s", "t", "a", "l", "l", ".", "c", "o", "n", "f">>
sInstallDevConf == <<"i", "n", "s", "t", "a", "l", "l", "-", "d", "e", "v", ".", "c", "o", "n", "f">>
sMysqlConf == <<"d", "a", "t", "a", "b", "a", "s", "e", "_", "m", "y", "s", "q", "l", ".", "c", "o", "n", "f">>
sPostgresConf == <<"d", "a", "t", "a", "b", "a", "s", "e", "_", "p", "o", "s", "t", "g", "r", "e", "s", ".", "c", "o", "n", "f">>
sCommonConf == <<"c", "o", "m", "m", "o", "n", ".", "c", "o", "n", "f">>
sRdbmsDbClient == <<"R", "D", "B", "M", "S", "_", "D", "B", "_", "C", "L", "I", "E", "N", "T">>
sMysql == <<"m", "y", "s", "q", "l">>
sPostgres == <<"p", "o", "s", "t", "g", "r", "e", "s">>
sMainSetting == <<"M", "A", "I", "N", "_", "S", "E", "T", "T", "I", "N", "G">>
sAbc == <<"a", "b", "c">>
sMysqlHost == <<"M", "Y", "S", "Q", "L", "_", "H", "O", "S", "T">>
sMysqlserver == <<"m", "y", "s", "q", "l", "s", "e", "r", "v", "e", "r">>
sDbUser == <<"D", "B", "_", "U", "S", "E", "R">>
sRefDbCommonUser == <<"$", "{", "D", "B", "_", "C", "O", "M", "M", "O", "N", "_", "U", "S", "E", "R", "}">>
sPgHost == <<"P", "G", "_", "H", "O", "S", "T">>
sPgserver == <<"p", "g", "s", "e", "r", "v", "e", "r">>
sPgUserOverride == <<"p", "g", "_", "u", "s", "e", "r", "_", "o", "v", "e", "r", "r", "i", "d", "e">>
sDbCommonUser == <<"D", "B", "_", "C", "O", "M", "M", "O", "N", "_", "U", "S", "E", "R">>
sCommonDbUser == <<"c", "o", "m", "m", "o", "n", "_", "d", "b", "_", "u", "s", "e", "r">>
sMode == <<"M", "O", "D", "E">>
sDevelopment == <<"d", "e", "v", "e", "l", "o", "p", "m", "e", "n", "t">>
sApiUrl == <<"A", "P", "I", "_", "U", "R", "L">>
sRefDevApiUrl == <<"$", "{", "D", "E", "V", "_", "A", "P", "I", "_", "U", "R", "L", "}">>
sDatabasePrefix == <<"d", "a", "t", "a", "b", "a", "s", "e", "_">>
sConfSuffix == <<".", "c", "o", "n", "f">>
WordChars ==
    {"a", "b", "c", "d", "e", "f", "g", "h", "i", "j", "k", "l", "m", "n", "o", "p", "q", "r", "s", "t", "u", "v", "w", "x", "y", "z",
     "A", "B", "C", "D", "E", "F", "G", "H", "I", "J", "K", "L", "M", "N", "O", "P", "Q", "R", "S", "T", "U", "V", "W", "X", "Y", "Z",
     "0", "1", "2", "3", "4", "5", "6", "7", "8", "9", "_"}

\* The configuration files of TestLoad_DatabaseGrouping and
\* TestLoadWithDefaults_MultiEnv, as the key/value pairs written in them.
ConfFiles ==
    (sInstallConf :> ((sRdbmsDbClient :> sMysql) @@ (sMainSetting :> sAbc)))
    @@ (sMysqlConf :> ((sMysqlHost :> sMysqlserver) @@ (sDbUser :> sRefDbCommonUser)))
    @@ (sPostgresConf :> ((sPgHost :> sPgserver) @@ (sDbUser :> sPgUserOverride)))
    @@ (sCommonConf :> (sDbCommonUser :> sCommonDbUser))
    @@ (sInstallDevConf :> ((sMode :> sDevelopment) @@ (sApiUrl :> sRefDevApiUrl)))

\* The sets of files found on disk.
FileSets ==
    {{}, {sInstallConf, sMysqlConf, sPostgresConf, sCommonConf}, {sInstallDevConf, sInstallConf}}

BasePaths == {"", "/tmp/base"}

Environments == {"", "dev"}

CustomFileLists == {<<>>, <<"/tmp/base/custom1.conf">>}

OptionValues ==
    [BasePath : BasePaths, CustomFilePaths : CustomFileLists, Environment : Environments,
     EnableDatabaseGrouping : BOOLEAN]

\* time.Now().UTC().Format(time.RFC3339)
Timestamps == {"2025-01-01T00:00:00Z", "2025-01-01T00:00:01Z"}

\* dbFileRegex.FindStringSubmatch(name) for ^database_(\w+)\.conf$: the name and
\* its database type, or the empty sequence when the name does not match.
dbFileRegex(name) ==
    LET type == TrimSuffix(TrimPrefix(name, sDatabasePrefix), sConfSuffix)
    IN IF /\ HasPrefix(name, sDatabasePrefix)
          /\ HasSuffix(name, sConfSuffix)
          /\ Len(name) > Len(sDatabasePrefix) + Len(sConfSuffix)
          /\ \A i \in 1..Len(type) : type[i] \in WordChars
       THEN <<name, type>>
       ELSE <<>>

\* m[k] = v
Put(m, k, v) == [x \in DOMAIN m \cup {k} |-> IF x = k THEN v ELSE m[x]]

\* The map behind a reference; a nil map reads as an empty one.
Deref(h, r) == IF r = 0 THEN EmptyMap ELSE h[r]

\* len(m)
MapLen(h, r) == Cardinality(DOMAIN Deref(h, r))

\* Values of Metadata (interface{}): what encoding/json can encode, and a
\* channel, which it cannot.
StringValue(str) == [kind |-> "string", str |-> str]

StringsValue(list) == [kind |-> "[]string", list |-> list]

BoolValue(b) == [kind |-> "bool", b |-> b]

ChanValue == [kind |-> "chan"]

Encodable(v) == v.kind \in {"string", "[]string", "bool"}

\* Faulty variant: the maps of the first LoadedConfig are handed out again.
newLoadedConfigShared(h, o) ==
    IF Len(h) >= 5
    THEN [heap |-> h,
          lc |-> [ptr |-> 1, Main |-> 1, DatabaseConfigs |-> 2, Metadata |-> 3,
                  rawMainConfig |-> 4, rawDatabaseConfigs |-> 5, opts |-> o]]
    ELSE [heap |-> h \o <<EmptyMap, EmptyMap, EmptyMap, EmptyMap, EmptyMap>>,
          lc |-> [ptr |-> 1, Main |-> 1, DatabaseConfigs |-> 2, Metadata |-> 3,
                  rawMainConfig |-> 4, rawDatabaseConfigs |-> 5, opts |-> o]]

newLoadedConfig(h, o) ==
    LET n == Len(h)
    IN [heap |-> h \o <<EmptyMap, EmptyMap, EmptyMap, EmptyMap, EmptyMap>>,
        lc |-> [ptr |-> 1, Main |-> n + 1, DatabaseConfigs |-> n + 2, Metadata |-> n + 3,
                rawMainConfig |-> n + 4, rawDatabaseConfigs |-> n + 5, opts |-> o]]

\* for dbType, rawDbConf := range lc.rawDatabaseConfigs { ... }
RECURSIVE ResolveDatabaseConfigs(_, _, _)
ResolveDatabaseConfigs(h, l, todo) ==
    IF todo = {} THEN h
    ELSE LET dbType == CHOOSE t \in todo : TRUE
             r == resolveConfigMap(h, h[l.rawDatabaseConfigs][dbType], l.Main)
             h1 == [r.heap EXCEPT ![l.DatabaseConfigs] = Put(@, dbType, r.ret)]
         IN ResolveDatabaseConfigs(h1, l, todo \ {dbType})

\* Faulty variant: an empty base path is rejected.
LoadRejectsEmptyBasePath(h, o, t) ==
    IF o.BasePath = ""
    THEN [heap |-> h, lc |-> NilLoadedConfig, err |-> "base path cannot be empty"]
    ELSE [heap |-> newLoadedConfig(h, o).heap, lc |-> newLoadedConfig(h, o).lc, err |-> Nil]

\* Load, lines 51-54: the entries written to lc.Main
LoadMain(h, l) ==
    [h EXCEPT ![l.Main] =
        Put(Put(Put(Put(@, sMockKeyMain, sMockValueMain), sAnotherKey, sAnotherValue),
                sVar1, sValue1), sVar2, sVar2Tpl)]

\* Load, lines 55-60: the entry mockdb of lc.DatabaseConfigs
LoadDatabaseConfigs(h, l) ==
    IF l.opts.EnableDatabaseGrouping
    THEN LET hh == Append(h, (sHost :> sLocalhost) @@ (sPort :> s5432))
         IN [hh EXCEPT ![l.DatabaseConfigs] = Put(@, sMockdb, Len(hh))]
    ELSE h

\* Load, lines 61-64: the entries of lc.Metadata, at the time t
LoadMetadata(h, l, t) ==
    [h EXCEPT ![l.Metadata] =
        Put(Put(Put(Put(@, "source_type", StringValue("mock_load")),
                    "parsed_files", StringsValue(<<"/fake/path/mock.conf">>)),
                "database_grouping_enabled", BoolValue(l.opts.EnableDatabaseGrouping)),
            "extraction_date", StringValue(t))]

\* Faulty variant: lc.Main is resolved against itself.
LoadResolveMainItself(h, l) ==
    LET r == resolveConfigMap(h, l.Main, l.Main)
    IN [heap |-> r.heap, lc |-> [l EXCEPT !.Main = r.ret]]

\* Load, line 65: lc.Main = resolveConfigMap(lc.rawMainConfig, lc.Main, ...)
LoadResolveMain(h, l) ==
    LET r == resolveConfigMap(h, l.rawMainConfig, l.Main)
    IN [heap |-> r.heap, lc |-> [l EXCEPT !.Main = r.ret]]

\* Load, lines 66-70: the loop over lc.rawDatabaseConfigs
LoadResolveDatabaseConfigs(h, l) ==
    IF l.opts.EnableDatabaseGrouping
    THEN ResolveDatabaseConfigs(h, l, DOMAIN h[l.rawDatabaseConfigs])
    ELSE h

\* Load(opts) on the maps h at the time t: the maps afterwards, the returned
\* LoadedConfig and the returned error.
Load(h, o, t) ==
    LET a == newLoadedConfig(h, o)
        h3 == LoadMetadata(LoadDatabaseConfigs(LoadMain(a.heap, a.lc), a.lc), a.lc, t)
        r == LoadResolveMain(h3, a.lc)
    IN [heap |-> LoadResolveDatabaseConfigs(r.heap, r.lc), lc |-> r.lc, err |-> Nil]

LoadWithDefaults(h, basePath, env, enableDBGrouping, t) ==
    Load(h,
         [BasePath |-> IF basePath = "" THEN "/mock/base" ELSE basePath,
          CustomFilePaths |-> <<>>,
          Environment |-> env,
          EnableDatabaseGrouping |-> enableDBGrouping],
         t)

\* The keys of a JSON object in the order encoding/json writes them (sorted).
SortedKeys == <<"database_configs", "main", "metadata">>

\* json.MarshalIndent(outputMap): the document as its members in written
\* order, a nil map written as null; an error when a value cannot be encoded.
MarshalIndent(h, outputMap) ==
    LET present(k) == k \in DOMAIN outputMap
        keys == SelectSeq(SortedKeys, present)
        metadata == IF "metadata" \in DOMAIN outputMap THEN Deref(h, outputMap["metadata"])
                    ELSE EmptyMap
        object(r) ==
            IF r = 0 THEN [null |-> TRUE, members |-> EmptyMap]
            ELSE [null |-> FALSE, members |-> h[r]]
        encode(k) ==
            IF k = "database_configs" /\ outputMap[k] # 0
            THEN [null |-> FALSE,
                  members |-> [t \in DOMAIN h[outputMap[k]] |-> object(h[outputMap[k]][t])]]
            ELSE object(outputMap[k])
    IN IF \E k \in DOMAIN metadata : ~ Encodable(metadata[k])
       THEN [data |-> <<>>, err |-> "json: unsupported type"]
       ELSE [data |-> [i \in 1..Len(keys) |-> [key |-> keys[i], value |-> encode(keys[i])]],
             err |-> Nil]

\* Faulty variant: database_configs is written whenever grouping is enabled.
ToJSONGroupingOnly(h, l) ==
    LET m1 == Put(EmptyMap, "main", l.Main)
        m2 == IF l.opts.EnableDatabaseGrouping
              THEN Put(m1, "database_configs", l.DatabaseConfigs)
              ELSE m1
    IN MarshalIndent(h, Put(m2, "metadata", l.Metadata))

\* lc.ToJSON()
ToJSON(h, l) ==
    LET m1 == Put(EmptyMap, "main", l.Main)
        m2 == IF l.opts.EnableDatabaseGrouping /\ MapLen(h, l.DatabaseConfigs) > 0
              THEN Put(m1, "database_configs", l.DatabaseConfigs)
              ELSE m1
        outputMap == Put(m2, "metadata", l.Metadata)
    IN MarshalIndent(h, outputMap)

\* lc.ToMap()
ToMap(h, l) ==
    LET m1 == Put(EmptyMap, "main", l.Main)
        m2 == IF l.opts.EnableDatabaseGrouping /\ MapLen(h, l.DatabaseConfigs) > 0
              THEN Put(m1, "database_configs", l.DatabaseConfigs)
              ELSE m1
    IN Put(m2, "metadata", l.Metadata)

\* Paths are sequences of path elements.
SavePaths == {<<"out", "cfg.json">>}

\* filepath.Dir
Dir(path) == SubSeq(path, 1, Len(path) - 1)

\* os.MkdirAll(dir): dir and every directory above it.
MkdirAll(d, dir) == [d EXCEPT !.dirs = @ \cup {SubSeq(dir, 1, n) : n \in 1..Len(dir)}]

\* os.WriteFile(filePath, data)
WriteFile(d, filePath, data) == [d EXCEPT !.files = Put(@, filePath, data)]

\* lc.SaveAsJSON(filePath), with whether MkdirAll and WriteFile succeed: the
\* disk afterwards and the returned error.
SaveAsJSON(h, l, d, filePath, mkdirOk, writeOk) ==
    LET j == ToJSON(h, l)
    IN IF j.err # Nil THEN [disk |-> d, err |-> j.err]
       ELSE IF ~ mkdirOk THEN [disk |-> d, err |-> "mkdir failed"]
       ELSE IF ~ writeOk THEN [disk |-> MkdirAll(d, Dir(filePath)), err |-> "write failed"]
       ELSE [disk |-> WriteFile(MkdirAll(d, Dir(filePath)), filePath, j.data), err |-> Nil]

InitLoad ==
    /\ IdleTools
    /\ IdleLoads
    /\ opts \in OptionValues
    /\ \E present \in FileSets : files = [f \in present |-> ConfFiles[f]]
    /\ now \in Timestamps
    /\ lheap = <<>>
    /\ lc = NilLoadedConfig
    /\ loadErr = Nil
    /\ loadPc = "init"
    /\ jsonOut = NoJSON
    /\ mapOut = NoMap
    /\ saveOut = NoSave
    /\ disk = EmptyDisk
    /\ IdleResolve
    /\ IdleConfigMap
    /\ IdleProduct

\* lc, err := Load(opts)
CallLoad ==
    /\ loadPc = "init"
    /\ LET r == Load(lheap, opts, now)
       IN /\ lheap' = r.heap
          /\ lc' = r.lc
          /\ loadErr' = r.err
    /\ loadPc' = "loaded"
    /\ UNCHANGED <<opts, files, now, jsonOut, mapOut, saveOut, disk, resolveVars, configMapVars,
                   productVars, loadsVars, toolVars>>

\* lc, err := LoadWithDefaults(basePath, env, enableDBGrouping)
CallLoadWithDefaults ==
    /\ loadPc = "init"
    /\ opts.CustomFilePaths = <<>>
    /\ LET r == LoadWithDefaults(lheap, opts.BasePath, opts.Environment,
                                 opts.EnableDatabaseGrouping, now)
       IN /\ lheap' = r.heap
          /\ lc' = r.lc
          /\ loadErr' = r.err
    /\ loadPc' = "loaded"
    /\ UNCHANGED <<opts, files, now, jsonOut, mapOut, saveOut, disk, resolveVars, configMapVars,
                   productVars, loadsVars, toolVars>>

\* lc.opts.EnableDatabaseGrouping = b
SetEnableDatabaseGrouping ==
    /\ loadPc \in {"loaded", "modified"}
    /\ \E b \in BOOLEAN :
          /\ b # lc.opts.EnableDatabaseGrouping
          /\ lc' = [lc EXCEPT !.opts.EnableDatabaseGrouping = b]
    /\ loadPc' = "modified"
    /\ jsonOut' = NoJSON
    /\ mapOut' = NoMap
    /\ saveOut' = NoSave
    /\ UNCHANGED <<opts, files, now, lheap, loadErr, disk, resolveVars, configMapVars,
                   productVars, loadsVars, toolVars>>

\* lc.DatabaseConfigs = nil
SetDatabaseConfigsNil ==
    /\ loadPc \in {"loaded", "modified"}
    /\ lc.DatabaseConfigs # 0
    /\ lc' = [lc EXCEPT !.DatabaseConfigs = 0]
    /\ loadPc' = "modified"
    /\ jsonOut' = NoJSON
    /\ mapOut' = NoMap
    /\ saveOut' = NoSave
    /\ UNCHANGED <<opts, files, now, lheap, loadErr, disk, resolveVars, configMapVars,
                   productVars, loadsVars, toolVars>>

\* lc.Metadata["note"] = v, for a value v that encoding/json can or cannot encode
SetMetadata ==
    /\ loadPc \in {"loaded", "modified"}
    /\ "note" \notin DOMAIN lheap[lc.Metadata]
    /\ \E v \in {StringValue("test"), ChanValue} :
          lheap' = [lheap EXCEPT ![lc.Metadata] = Put(@, "note", v)]
    /\ loadPc' = "modified"
    /\ jsonOut' = NoJSON
    /\ mapOut' = NoMap
    /\ saveOut' = NoSave
    /\ UNCHANGED <<opts, files, now, lc, loadErr, disk, resolveVars, configMapVars,
                   productVars, loadsVars, toolVars>>

\* data, err := lc.ToJSON()
CallToJSON ==
    /\ loadPc \in {"loaded", "modified"}
    /\ ~ jsonOut.called
    /\ LET r == ToJSON(lheap, lc)
       IN jsonOut' = [called |-> TRUE, data |-> r.data, err |-> r.err]
    /\ UNCHANGED <<opts, files, now, lheap, lc, loadErr, loadPc, mapOut, saveOut, disk,
                   resolveVars, configMapVars, productVars, loadsVars, toolVars>>

\* outputMap := lc.ToMap()
CallToMap ==
    /\ loadPc \in {"loaded", "modified"}
    /\ ~ mapOut.called
    /\ mapOut' = [called |-> TRUE, outputMap |-> ToMap(lheap, lc)]
    /\ UNCHANGED <<opts, files, now, lheap, lc, loadErr, loadPc, jsonOut, saveOut, disk,
                   resolveVars, configMapVars, productVars, loadsVars, toolVars>>

\* err := lc.SaveAsJSON(filePath)
CallSaveAsJSON ==
    /\ loadPc \in {"loaded", "modified"}
    /\ ~ saveOut.called
    /\ \E filePath \in SavePaths : \E mkdirOk \in BOOLEAN : \E writeOk \in BOOLEAN :
          LET r == SaveAsJSON(lheap, lc, disk, filePath, mkdirOk, writeOk)
          IN /\ disk' = r.disk
             /\ saveOut' = [called |-> TRUE, filePath |-> filePath, err |-> r.err]
    /\ UNCHANGED <<opts, files, now, lheap, lc, loadErr, loadPc, jsonOut, mapOut,
                   resolveVars, configMapVars, productVars, loadsVars, toolVars>>

NextLoad ==
    \/ CallLoad
    \/ CallLoadWithDefaults
    \/ SetEnableDatabaseGrouping
    \/ SetDatabaseConfigsNil
    \/ SetMetadata
    \/ CallToJSON
    \/ CallToMap
    \/ CallSaveAsJSON

SpecLoad == InitLoad /\ [][NextLoad]_vars

(***************************************************************************)
(* Properties of Load and of the output document.                          *)
(***************************************************************************)
\* The database configuration files on disk, by dbFileRegex.
DatabaseFiles == {f \in DOMAIN files : dbFileRegex(f) # <<>>}

\* C7: with database_mysql.conf and database_postgres.conf on disk, Load with
\* grouping enabled yields one DatabaseConfigs entry per database file, named by
\* the file's type, distinct from the others, holding the file's keys, none of
\* which is in Main; with grouping disabled the keys of the database files are
\* in Main and DatabaseConfigs is empty.
C7_DatabaseGrouping ==
    (loadPc = "loaded" /\ {sMysqlConf, sPostgresConf} \subseteq DOMAIN files) =>
        LET main == Deref(lheap, lc.Main)
            db == Deref(lheap, lc.DatabaseConfigs)
        IN IF lc.opts.EnableDatabaseGrouping
           THEN /\ \A f \in DatabaseFiles :
                      /\ dbFileRegex(f)[2] \in DOMAIN db
                      /\ DOMAIN files[f] \subseteq DOMAIN Deref(lheap, db[dbFileRegex(f)[2]])
                      /\ DOMAIN files[f] \cap DOMAIN main = {}
                /\ db[sMysql] # db[sPostgres]
           ELSE /\ \A f \in DatabaseFiles : DOMAIN files[f] \subseteq DOMAIN main
                /\ DOMAIN db = {}

DocumentKeys(data) == {data[i].key : i \in 1..Len(data)}

\* The keys the output of the LoadedConfig is to have.
OutputKeys ==
    {"main", "metadata"}
    \cup (IF lc.opts.EnableDatabaseGrouping /\ DOMAIN Deref(lheap, lc.DatabaseConfigs) # {}
          THEN {"database_configs"}
          ELSE {})

\* C9: the map of ToMap, the document of ToJSON and the file of SaveAsJSON have
\* the keys main and metadata, and database_configs exactly when grouping is
\* enabled and DatabaseConfigs is not empty; a call that returns an error (a
\* Metadata value that cannot be encoded, a failed write) has no document.
C9_OutputKeys ==
    /\ mapOut.called => DOMAIN mapOut.outputMap = OutputKeys
    /\ (jsonOut.called /\ jsonOut.err = Nil) => DocumentKeys(jsonOut.data) = OutputKeys
    /\ (jsonOut.called /\ jsonOut.err # Nil) => jsonOut.data = <<>>
    /\ (saveOut.called /\ saveOut.err = Nil) =>
          /\ saveOut.filePath \in DOMAIN disk.files
          /\ DocumentKeys(disk.files[saveOut.filePath]) = OutputKeys
    /\ (mapOut.called /\ jsonOut.called /\ jsonOut.err = Nil) =>
          DocumentKeys(jsonOut.data) = DOMAIN mapOut.outputMap

C9_Witness ==
    /\ mapOut.called
    /\ jsonOut.called
    /\ jsonOut.err = Nil
    /\ saveOut.called
    /\ saveOut.err = Nil
    /\ lc.opts.EnableDatabaseGrouping
    /\ lc.DatabaseConfigs = 0
    /\ DocumentKeys(jsonOut.data) = {"main", "metadata"}
    /\ DOMAIN mapOut.outputMap = {"main", "metadata"}

(***************************************************************************)
(* FileSystemProductManager.  Paths are sequences of path elements, the    *)
(* empty sequence being the empty path; charts[p] is the tree of files     *)
(* (name -> content) found at the path p.                                  *)
(***************************************************************************)
UnassignedVarError == "error"

UnassignedVarEmpty == "empty"

UnassignedVarKeep == "keep"

\* The characters of [a-zA-Z0-9_.-].
VariableChars == WordChars \cup {".", "-"}

\* The end of the longest run of variable characters that starts at j (j - 1
\* when there is none).
RECURSIVE VariableNameEnd(_, _)
VariableNameEnd(s, j) ==
    IF j <= Len(s) /\ s[j] \in VariableChars THEN VariableNameEnd(s, j + 1) ELSE j - 1

\* variableRegex @{([a-zA-Z0-9_.-]+)}: the end of the match that starts at
\* position i of s, 0 when there is none.
variableRegex(s, i) ==
    IF i + 1 <= Len(s) /\ s[i] = "@" /\ s[i + 1] = "{"
    THEN LET e == VariableNameEnd(s, i + 2)
         IN IF e >= i + 2 /\ e + 1 <= Len(s) /\ s[e + 1] = "}" THEN e + 1 ELSE 0
    ELSE 0

sV == <<"v">>
sW == <<"w">>
sThree == <<"3">>
sPlaceholderV == <<"@", "{", "v", "}">>
sReplicaCount == <<"r", ":", " ", "'", "@", "{", "v", "}", "'">>
sTwoPlaceholders == <<"@", "{", "v", "}", "-", "@", "{", "w", "}">>
sPlainText == <<"n", ":", " ", "x">>
sNameReplicaCount == <<"r", "e", "p", "l", "i", "c", "a", "C", "o", "u", "n", "t">>
sNameServicePort == <<"s", "e", "r", "v", "i", "c", "e", ".", "p", "o", "r", "t">>
\* The first bytes of a PNG file, the first one (0x89) as one character.
PngMagic == <<"0x89", "P", "N", "G">>
sPngWithPlaceholder == PngMagic \o <<"@", "{", "b", "}">>

\* The chart trees on disk.
ChartTrees ==
    {("values.yaml" :> sReplicaCount),
     ("values.yaml" :> sReplicaCount) @@ ("deployment.yaml" :> sTwoPlaceholders),
     ("Chart.yaml" :> sPlainText),
     ("values.yaml" :> sReplicaCount) @@ ("logo.png" :> sPngWithPlaceholder)}

ProductPaths == {<<"prod">>, <<"charts", "web">>}

OutputPaths == {<<>>, <<"tmp", "out">>}

VariableMaps == {EmptyMap, (sV :> sThree), (sV :> sThree) @@ (sW :> <<>>)}

UnassignedVarActions == {UnassignedVarError, UnassignedVarEmpty, UnassignedVarKeep, "skip"}

\* What an installed InstantiateProductFunc returns.
OverrideResults ==
    {[instantiatedPath |-> <<"override">>, err |-> NoError],
     [instantiatedPath |-> <<>>, err |-> Errorf("override failed", <<>>)]}

\* filepath.Base
Base(path) == IF path = <<>> THEN "." ELSE path[Len(path)]

\* filepath.Join(path, elem)
Join(path, elem) == IF elem \in {"", "."} THEN path ELSE Append(path, elem)

\* The built-in part of InstantiateProduct: the chart trees afterwards, the
\* returned path and the returned error.
InstantiateProduct(fs, productNameOrPath, variables, outputPath, unassignedVarAction) ==
    IF outputPath = <<>>
    THEN [charts |-> fs, instantiatedPath |-> <<>>,
          err |-> Errorf("outputPath cannot be empty", <<>>)]
    ELSE [charts |-> fs, instantiatedPath |-> Join(outputPath, Base(productNameOrPath)),
          err |-> NoError]

\* What an installed ExtractVariablesFromPathFunc returns.
ExtractOverrideResults ==
    {[vars |-> <<>>, err |-> Errorf("override failed", <<>>)],
     [vars |-> <<[Name |-> sV, Description |-> "", Default |-> ""]>>, err |-> NoError]}

\* The built-in part of ExtractVariablesFromPath: the returned variable
\* definitions and the returned error.
ExtractVariablesFromPath(fs, path) ==
    [vars |-> <<[Name |-> sNameReplicaCount, Description |-> "Number of replicas",
                 Default |-> ""],
                [Name |-> sNameServicePort, Description |-> "", Default |-> "80"]>>,
     err |-> NoError]

InitProduct ==
    /\ IdleTools
    /\ pm \in [baseProductsPath : {<<"products">>}, InstantiateProductFunc : {Nil, "override"},
                ExtractVariablesFromPathFunc : {Nil, "override"},
                ValidateChartFilesFunc : {Nil, "override"}]
    /\ instArgs \in [productNameOrPath : ProductPaths, variables : VariableMaps,
                     outputPath : OutputPaths, unassignedVarAction : UnassignedVarActions]
    /\ \E tree \in ChartTrees : charts = (instArgs.productNameOrPath :> tree)
    /\ instOut = NoInstantiate
    /\ extOut = NoExtract
    /\ validateOut = NoValidate
    /\ IdleResolve
    /\ IdleConfigMap
    /\ IdleLoad

\* m.InstantiateProduct(...) with InstantiateProductFunc installed
CallInstantiateProductFunc ==
    /\ ~ instOut.called
    /\ pm.InstantiateProductFunc # Nil
    /\ \E r \in OverrideResults :
          instOut' = [called |-> TRUE, instantiatedPath |-> r.instantiatedPath, err |-> r.err]
    /\ UNCHANGED <<pm, charts, instArgs, validateOut, extOut, resolveVars, configMapVars, loadVars, loadsVars, toolVars>>

\* m.InstantiateProduct(...) with no override installed
CallInstantiateProduct ==
    /\ ~ instOut.called
    /\ pm.InstantiateProductFunc = Nil
    /\ LET r == InstantiateProduct(charts, instArgs.productNameOrPath, instArgs.variables,
                                   instArgs.outputPath, instArgs.unassignedVarAction)
       IN /\ charts' = r.charts
          /\ instOut' = [called |-> TRUE, instantiatedPath |-> r.instantiatedPath,
                         err |-> r.err]
    /\ UNCHANGED <<pm, instArgs, validateOut, extOut, resolveVars, configMapVars, loadVars, loadsVars, toolVars>>

\* m.ExtractVariablesFromPath(path) with ExtractVariablesFromPathFunc installed
CallExtractVariablesFromPathFunc ==
    /\ ~ extOut.called
    /\ pm.ExtractVariablesFromPathFunc # Nil
    /\ \E path \in DOMAIN charts, r \in ExtractOverrideResults :
          extOut' = [called |-> TRUE, path |-> path, vars |-> r.vars, err |-> r.err]
    /\ UNCHANGED <<pm, charts, instArgs, validateOut, instOut, resolveVars, configMapVars, loadVars, loadsVars, toolVars>>

\* m.ExtractVariablesFromPath(path) with no override installed
CallExtractVariablesFromPath ==
    /\ ~ extOut.called
    /\ pm.ExtractVariablesFromPathFunc = Nil
    /\ \E path \in DOMAIN charts :
          LET r == ExtractVariablesFromPath(charts, path)
          IN extOut' = [called |-> TRUE, path |-> path, vars |-> r.vars, err |-> r.err]
    /\ UNCHANGED <<pm, charts, instArgs, validateOut, instOut, resolveVars, configMapVars, loadVars, loadsVars, toolVars>>

\* strings.Contains
Contains(str, substr) ==
    \E i \in 1..(Len(str) - Len(substr) + 1) : SubSeq(str, i, i + Len(substr) - 1) = substr

sInvalidChart == <<"i", "n", "v", "a", "l", "i", "d", "-", "c", "h", "a", "r", "t">>

\* The chart paths handed to ValidateChartFiles.
ChartPaths ==
    {<<"i", "g", "n", "o", "r", "e", "d">>,
     <<"i", "n", "v", "a", "l", "i", "d", "-", "c", "h", "a", "r", "t">>,
     <<"c", "h", "a", "r", "t", "s", "/", "i", "n", "v", "a", "l", "i", "d", "-", "c", "h", "a", "r", "t", "/", "v", "1">>,
     <<"c", "h", "a", "r", "t", "s", "/", "v", "a", "l", "i", "d", "-", "c", "h", "a", "r", "t">>,
     <<"i", "n", "v", "a", "l", "i", "d", "-", "c", "h", "a", "r">>,
     <<>>}

\* What an installed ValidateChartFilesFunc returns.
ValidateOverrideResults == {NoError, Errorf("custom validation error", <<>>)}

\* Faulty variant: every chart passes.
ValidateChartFilesAlwaysPasses(chartPath) == NoError

\* The built-in part of ValidateChartFiles: the returned error.
ValidateChartFiles(chartPath) ==
    IF Contains(chartPath, sInvalidChart)
    THEN Errorf("mock validation error: chart at %s is invalid", <<chartPath>>)
    ELSE NoError

\* m.ValidateChartFiles(chartPath) with ValidateChartFilesFunc installed
CallValidateChartFilesFunc ==
    /\ ~ validateOut.called
    /\ pm.ValidateChartFilesFunc # Nil
    /\ \E chartPath \in ChartPaths, err \in ValidateOverrideResults :
          validateOut' = [called |-> TRUE, chartPath |-> chartPath, err |-> err]
    /\ UNCHANGED <<pm, charts, instArgs, instOut, extOut, resolveVars, configMapVars, loadVars,
                   loadsVars, toolVars>>

\* m.ValidateChartFiles(chartPath) with no override installed
CallValidateChartFiles ==
    /\ ~ validateOut.called
    /\ pm.ValidateChartFilesFunc = Nil
    /\ \E chartPath \in ChartPaths :
          validateOut' = [called |-> TRUE, chartPath |-> chartPath,
                          err |-> ValidateChartFiles(chartPath)]
    /\ UNCHANGED <<pm, charts, instArgs, instOut, extOut, resolveVars, configMapVars, loadVars,
                   loadsVars, toolVars>>

NextProduct ==
    \/ CallInstantiateProductFunc
    \/ CallInstantiateProduct
    \/ CallExtractVariablesFromPathFunc
    \/ CallExtractVariablesFromPath
    \/ CallValidateChartFilesFunc
    \/ CallValidateChartFiles

SpecProduct == InitProduct /\ [][NextProduct]_vars

(***************************************************************************)
(* Properties of InstantiateProduct.                                       *)
(***************************************************************************)
\* The names of the placeholders @{name} of a text.
PlaceholderNames(s) ==
    {SubSeq(s, i + 2, variableRegex(s, i) - 1) : i \in {j \in 1..Len(s) : variableRegex(s, j) # 0}}

\* The text with its placeholders replaced: by the variable's value, and for a
\* name without a value by nothing (empty) or by the placeholder itself (keep).
RECURSIVE ReplacePlaceholders(_, _, _, _)
ReplacePlaceholders(s, variables, policy, i) ==
    IF i > Len(s) THEN <<>>
    ELSE LET e == variableRegex(s, i)
         IN IF e = 0 THEN <<s[i]>> \o ReplacePlaceholders(s, variables, policy, i + 1)
            ELSE LET name == SubSeq(s, i + 2, e - 1)
                     with == IF name \in DOMAIN variables THEN variables[name]
                             ELSE IF policy = UnassignedVarEmpty THEN <<>>
                             ELSE SubSeq(s, i, e)
                 IN with \o ReplacePlaceholders(s, variables, policy, e + 1)

\* The placeholder names of the chart that have no value.
UnassignedNames ==
    UNION {PlaceholderNames(charts[instArgs.productNameOrPath][f]) :
              f \in DOMAIN charts[instArgs.productNameOrPath]}
    \ DOMAIN instArgs.variables

\* C10: the built-in InstantiateProduct, given an output path and one of the
\* three policies, writes the chart to the returned path with every placeholder
\* that has a value replaced by it and every other placeholder kept ("keep") or
\* replaced by nothing ("empty"); under "error" a placeholder without a value
\* makes it return an error that names the placeholder.
C10_UnassignedPolicyHonoured ==
    (/\ instOut.called
     /\ pm.InstantiateProductFunc = Nil
     /\ instArgs.outputPath # <<>>
     /\ instArgs.unassignedVarAction \in
           {UnassignedVarError, UnassignedVarEmpty, UnassignedVarKeep}) =>
        LET source == charts[instArgs.productNameOrPath]
        IN IF instArgs.unassignedVarAction = UnassignedVarError /\ UnassignedNames # {}
           THEN /\ ~ instOut.err.nil
                /\ \A v \in UnassignedNames : \E i \in DOMAIN instOut.err.args :
                      instOut.err.args[i] = v
           ELSE /\ instOut.err.nil
                /\ instOut.instantiatedPath \in DOMAIN charts
                /\ DOMAIN charts[instOut.instantiatedPath] = DOMAIN source
                /\ \A f \in DOMAIN source :
                      charts[instOut.instantiatedPath][f] =
                          ReplacePlaceholders(source[f], instArgs.variables,
                                              instArgs.unassignedVarAction, 1)

\* C11: the built-in InstantiateProduct, given an empty output path or a policy
\* other than "error", "empty" and "keep", returns an error and no path.
C11_InvalidArgumentsRejected ==
    (/\ instOut.called
     /\ pm.InstantiateProductFunc = Nil
     /\ \/ instArgs.outputPath = <<>>
        \/ instArgs.unassignedVarAction \notin
              {UnassignedVarError, UnassignedVarEmpty, UnassignedVarKeep}) =>
        /\ ~ instOut.err.nil
        /\ instOut.instantiatedPath = <<>>

\* A binary file, by its first bytes.
IsBinary(content) == HasPrefix(content, PngMagic)

\* The placeholder names of the text files of a tree.
TextFileNames(tree) ==
    UNION {PlaceholderNames(tree[f]) : f \in {g \in DOMAIN tree : ~ IsBinary(tree[g])}}

\* C12: the built-in ExtractVariablesFromPath returns the placeholder names of
\* the text files of the tree at the path, each of them once, and no other name.
C12_ExtractsDistinctNames ==
    (extOut.called /\ pm.ExtractVariablesFromPathFunc = Nil) =>
        /\ extOut.err.nil
        /\ {extOut.vars[i].Name : i \in DOMAIN extOut.vars} = TextFileNames(charts[extOut.path])
        /\ \A i, j \in DOMAIN extOut.vars :
              extOut.vars[i].Name = extOut.vars[j].Name => i = j

IntValue(n) == [kind |-> "int", n |-> n]

\* BackupMetadata{}
NoMetadata ==
    [BackupID |-> "", Timestamp |-> 0, ReleaseName |-> "", ChartName |-> "",
     ChartVersion |-> "", AppVersion |-> "", Values |-> EmptyMap]

\* m.GetBackupDetails(releaseName, backupID) with no function installed, at the
\* time t.
GetBackupDetails(releaseName, backupID, t) ==
    IF releaseName = "non-existent-release" \/ backupID = "non-existent-backup-id"
    THEN [chartPath |-> <<>>, valuesFilePath |-> <<>>, metadata |-> NoMetadata,
          err |-> Errorf("backup %s/%s not found", <<releaseName, backupID>>)]
    ELSE LET restore == releaseName = "restore-test-release" /\ backupID = "mock-restore-backup-id"
             upgrade == releaseName = "upgrade-test-release" /\ backupID = "mock-upgrade-backup-id"
             chartName == IF restore THEN "restorechart"
                          ELSE IF upgrade THEN "upgradechart"
                          ELSE IF releaseName # "details-test-release" THEN "mock-chart-details"
                          ELSE "detailschart"
             mockValues == IF restore THEN ("replicaCount" :> IntValue(3))
                           ELSE IF upgrade THEN ("image" :> StringValue("newimage"))
                           ELSE ("mockKey" :> StringValue("mockValueFromGetDetails"))
         IN [chartPath |-> <<"/mocked/chart/path/", backupID>>,
             valuesFilePath |-> <<"/mocked/values/path/", backupID, ".yaml">>,
             metadata |-> [BackupID |-> backupID, Timestamp |-> t,
                           ReleaseName |-> releaseName, ChartName |-> chartName,
                           ChartVersion |-> "0.2.0", AppVersion |-> "2.0",
                           Values |-> mockValues],
             err |-> NoError]

\* What an installed GetBackupDetailsFunc returns.
GetBackupDetailsFuncResults ==
    {[chartPath |-> <<"/mocked/chart/path/for_restore">>,
      valuesFilePath |-> <<"/mocked/values.yaml">>,
      metadata |-> [NoMetadata EXCEPT !.ChartName = "restorechart", !.ChartVersion = "0.5.0"],
      err |-> NoError],
     [chartPath |-> <<>>, valuesFilePath |-> <<>>, metadata |-> NoMetadata,
      err |-> Errorf("GetBackupDetails mock: not found", <<>>)]}

\* A call of the Helm client, by the method and its arguments.
NoCall ==
    [fn |-> "", namespace |-> "", releaseName |-> "", chartName |-> <<>>,
     chartVersion |-> "", vals |-> EmptyMap, createNamespace |-> FALSE, wait |-> FALSE,
     keepHistory |-> FALSE, installIfMissing |-> FALSE, force |-> FALSE]

\* mockHelmClient.UninstallRelease
UninstallRelease(h, namespace, releaseName, keepHistory) ==
    [helmClient |->
        [h EXCEPT !.calls = Append(@, [NoCall EXCEPT !.fn = "UninstallRelease",
                                                     !.namespace = namespace,
                                                     !.releaseName = releaseName,
                                                     !.keepHistory = keepHistory])],
     err |-> IF h.UninstallReleaseFunc = "fail"
             THEN Errorf("uninstall failed", <<>>) ELSE NoError]

\* mockHelmClient.InstallChart
InstallChart(h, namespace, releaseName, chartName, chartVersion, vals, createNamespace, wait) ==
    [helmClient |->
        [h EXCEPT !.calls = Append(@, [NoCall EXCEPT !.fn = "InstallChart",
                                                     !.namespace = namespace,
                                                     !.releaseName = releaseName,
                                                     !.chartName = chartName,
                                                     !.chartVersion = chartVersion,
                                                     !.vals = vals,
                                                     !.createNamespace = createNamespace,
                                                     !.wait = wait])],
     rel |-> IF h.InstallChartFunc = "fail" THEN NilReleaseInfo
             ELSE [ptr |-> 1, Name |-> releaseName, Namespace |-> namespace,
                   Revision |-> 1, Status |-> "deployed"],
     err |-> IF h.InstallChartFunc = "fail"
             THEN Errorf("install failed", <<>>) ELSE NoError]

\* mockHelmClient.UpgradeRelease
UpgradeRelease(h, namespace, releaseName, chartName, chartVersion, vals, wait, installIfMissing, force) ==
    [helmClient |->
        [h EXCEPT !.calls = Append(@, [NoCall EXCEPT !.fn = "UpgradeRelease",
                                                     !.namespace = namespace,
                                                     !.releaseName = releaseName,
                                                     !.chartName = chartName,
                                                     !.chartVersion = chartVersion,
                                                     !.vals = vals,
                                                     !.wait = wait,
                                                     !.installIfMissing = installIfMissing,
                                                     !.force = force])],
     rel |-> IF h.UpgradeReleaseFunc = "fail" THEN NilReleaseInfo
             ELSE [ptr |-> 1, Name |-> releaseName, Namespace |-> namespace,
                   Revision |-> 2, Status |-> "deployed"],
     err |-> IF h.UpgradeReleaseFunc = "fail"
             THEN Errorf("upgrade failed", <<>>) ELSE NoError]

\* Faulty variant: the chart is installed before the release is uninstalled.
RestoreReleaseInstallFirst(m, h, d, namespace, releaseName, createNamespace, wait) ==
    IF ~ d.err.nil
    THEN [helmClient |-> h, rel |-> NilReleaseInfo,
          err |-> Errorf("failed to get backup details for restore: %w", <<d.err>>),
          logged |-> <<>>, panicked |-> FALSE]
    ELSE LET i == InstallChart(h, namespace, releaseName, d.chartPath,
                               d.metadata.ChartVersion, d.metadata.Values,
                               createNamespace, wait)
             u == UninstallRelease(i.helmClient, namespace, releaseName, FALSE)
         IN [helmClient |-> u.helmClient, rel |-> i.rel, err |-> i.err,
             logged |-> <<>>, panicked |-> FALSE]

\* Faulty variant: the release is uninstalled before the backup is looked at.
RestoreReleaseUninstallFirst(m, h, d, namespace, releaseName, createNamespace, wait) ==
    LET u == UninstallRelease(h, namespace, releaseName, FALSE)
    IN IF ~ d.err.nil
       THEN [helmClient |-> u.helmClient, rel |-> NilReleaseInfo,
             err |-> Errorf("failed to get backup details for restore: %w", <<d.err>>),
             logged |-> <<>>, panicked |-> FALSE]
       ELSE LET i == InstallChart(u.helmClient, namespace, releaseName, d.chartPath,
                                  d.metadata.ChartVersion, d.metadata.Values,
                                  createNamespace, wait)
            IN [helmClient |-> i.helmClient, rel |-> i.rel, err |-> i.err,
                logged |-> <<>>, panicked |-> FALSE]

sUninstallFailed == "Mock Restore: UninstallRelease failed (continuing for mock): %v"

\* The built-in part of RestoreRelease after m.GetBackupDetails has returned d:
\* the Helm client afterwards, the returned release and the returned error,
\* the lines handed to m.logger, and whether the call of a nil m.logger has
\* panicked, in which case nothing is returned.
RestoreRelease(m, h, d, namespace, releaseName, createNamespace, wait) ==
    IF ~ d.err.nil
    THEN [helmClient |-> h, rel |-> NilReleaseInfo,
          err |-> Errorf("failed to get backup details for restore: %w", <<d.err>>),
          logged |-> <<>>, panicked |-> FALSE]
    ELSE LET u == UninstallRelease(h, namespace, releaseName, FALSE)
             i == InstallChart(u.helmClient, namespace, releaseName, d.chartPath,
                               d.metadata.ChartVersion, d.metadata.Values,
                               createNamespace, wait)
         IN IF ~ u.err.nil /\ m.logger = Nil
            THEN [helmClient |-> u.helmClient, rel |-> NilReleaseInfo, err |-> NoError,
                  logged |-> <<>>, panicked |-> TRUE]
            ELSE [helmClient |-> i.helmClient, rel |-> i.rel, err |-> i.err,
                  logged |-> IF u.err.nil THEN <<>>
                             ELSE <<[format |-> sUninstallFailed, args |-> <<u.err>>]>>,
                  panicked |-> FALSE]

\* Faulty variant: the upgrade is an uninstall followed by an install.
UpgradeToBackupByReinstall(h, d, namespace, releaseName, wait, force) ==
    IF ~ d.err.nil
    THEN [helmClient |-> h, rel |-> NilReleaseInfo,
          err |-> Errorf("failed to get backup details for upgrade: %w", <<d.err>>)]
    ELSE LET u == UninstallRelease(h, namespace, releaseName, FALSE)
             i == InstallChart(u.helmClient, namespace, releaseName, d.chartPath,
                               d.metadata.ChartVersion, d.metadata.Values, FALSE, wait)
         IN [helmClient |-> i.helmClient, rel |-> i.rel, err |-> i.err]

\* The built-in part of UpgradeToBackup after m.GetBackupDetails has returned d.
UpgradeToBackup(h, d, namespace, releaseName, wait, force) ==
    IF ~ d.err.nil
    THEN [helmClient |-> h, rel |-> NilReleaseInfo,
          err |-> Errorf("failed to get backup details for upgrade: %w", <<d.err>>)]
    ELSE LET u == UpgradeRelease(h, namespace, releaseName, d.chartPath,
                                 d.metadata.ChartVersion, d.metadata.Values, wait,
                                 TRUE, force)
         IN [helmClient |-> u.helmClient, rel |-> u.rel, err |-> u.err]

\* What an installed RestoreReleaseFunc or UpgradeToBackupFunc returns.
ReleaseFuncResults ==
    {[rel |-> [ptr |-> 1, Name |-> "override", Namespace |-> "override", Revision |-> 1,
               Status |-> "deployed"],
      err |-> NoError],
     [rel |-> NilReleaseInfo, err |-> Errorf("override failed", <<>>)]}

Namespaces == {"test-ns", "test-ns-upgrade"}

ReleaseNames ==
    {"restore-test-release", "upgrade-test-release", "non-existent-release", "myapp"}

BackupIDs == {"mock-restore-backup-id", "mock-upgrade-backup-id", "non-existent-backup-id"}

\* What m.GetBackupDetails returns to RestoreRelease and UpgradeToBackup.
BackupDetails ==
    IF bm.GetBackupDetailsFunc # Nil THEN GetBackupDetailsFuncResults
    ELSE {GetBackupDetails(restoreArgs.releaseName, restoreArgs.backupID, clock)}

InitRestore ==
    /\ bm \in [baseBackupPath : {"backups"}, logger : {Nil, "log.Printf"},
               BackupReleaseFunc : {Nil}, GetBackupDetailsFunc : {Nil, "override"},
               RestoreReleaseFunc : {Nil, "override"},
               UpgradeToBackupFunc : {Nil, "override"},
               ListBackupsFunc : {Nil}, DeleteBackupFunc : {Nil}, PruneBackupsFunc : {Nil}]
    /\ helmClient \in [UninstallReleaseFunc : {Nil, "fail"},
                       InstallChartFunc : {Nil, "fail"},
                       UpgradeReleaseFunc : {Nil, "fail"}, calls : {<<>>}]
    /\ restoreArgs \in [op : {"restore", "upgrade"}, namespace : Namespaces,
                        releaseName : ReleaseNames, backupID : BackupIDs,
                        createNamespace : BOOLEAN, wait : BOOLEAN, force : BOOLEAN]
    /\ restoreOut = NoRestore
    /\ clock = 0
    /\ backupLog = <<>>
    /\ IdleResolve
    /\ IdleConfigMap
    /\ IdleLoad
    /\ IdleProduct
    /\ IdleBackupctl
    /\ IdleValues
    /\ IdleCluster

\* m.RestoreRelease(...) with RestoreReleaseFunc installed
CallRestoreReleaseFunc ==
    /\ ~ restoreOut.called
    /\ restoreArgs.op = "restore"
    /\ bm.RestoreReleaseFunc # Nil
    /\ \E r \in ReleaseFuncResults :
          restoreOut' = [NoRestore EXCEPT !.called = TRUE, !.rel = r.rel, !.err = r.err]
    /\ UNCHANGED <<bm, helmClient, restoreArgs, clock, backupLog, libVars, backupctlVars,
                   valuesVars, clusterVars>>

\* m.RestoreRelease(...) with no RestoreReleaseFunc installed
CallRestoreRelease ==
    /\ ~ restoreOut.called
    /\ restoreArgs.op = "restore"
    /\ bm.RestoreReleaseFunc = Nil
    /\ \E d \in BackupDetails :
          LET r == RestoreRelease(bm, helmClient, d, restoreArgs.namespace,
                                  restoreArgs.releaseName, restoreArgs.createNamespace,
                                  restoreArgs.wait)
          IN /\ helmClient' = r.helmClient
             /\ restoreOut' = [called |-> TRUE, details |-> d, rel |-> r.rel, err |-> r.err,
                               logged |-> r.logged, panicked |-> r.panicked]
    /\ UNCHANGED <<bm, restoreArgs, clock, backupLog, libVars, backupctlVars, valuesVars, clusterVars>>

\* m.UpgradeToBackup(...) with UpgradeToBackupFunc installed
CallUpgradeToBackupFunc ==
    /\ ~ restoreOut.called
    /\ restoreArgs.op = "upgrade"
    /\ bm.UpgradeToBackupFunc # Nil
    /\ \E r \in ReleaseFuncResults :
          restoreOut' = [NoRestore EXCEPT !.called = TRUE, !.rel = r.rel, !.err = r.err]
    /\ UNCHANGED <<bm, helmClient, restoreArgs, clock, backupLog, libVars, backupctlVars,
                   valuesVars, clusterVars>>

\* m.UpgradeToBackup(...) with no UpgradeToBackupFunc installed
CallUpgradeToBackup ==
    /\ ~ restoreOut.called
    /\ restoreArgs.op = "upgrade"
    /\ bm.UpgradeToBackupFunc = Nil
    /\ \E d \in BackupDetails :
          LET r == UpgradeToBackup(helmClient, d, restoreArgs.namespace,
                                   restoreArgs.releaseName, restoreArgs.wait,
                                   restoreArgs.force)
          IN /\ helmClient' = r.helmClient
             /\ restoreOut' = [NoRestore EXCEPT !.called = TRUE, !.details = d,
                                                !.rel = r.rel, !.err = r.err]
    /\ UNCHANGED <<bm, restoreArgs, clock, backupLog, libVars, backupctlVars, valuesVars, clusterVars>>

NextRestore ==
    \/ CallRestoreReleaseFunc
    \/ CallRestoreRelease
    \/ CallUpgradeToBackupFunc
    \/ CallUpgradeToBackup

SpecRestore == InitRestore /\ [][NextRestore]_vars

(***************************************************************************)
(* Properties of RestoreRelease and UpgradeToBackup.                       *)
(***************************************************************************)
\* The built-in RestoreRelease has been called, and it (UpgradeToBackup) has
\* returned.
RestoreCalled ==
    restoreOut.called /\ restoreArgs.op = "restore" /\ bm.RestoreReleaseFunc = Nil

Restored == RestoreCalled /\ ~ restoreOut.panicked

Upgraded == restoreOut.called /\ restoreArgs.op = "upgrade" /\ bm.UpgradeToBackupFunc = Nil

\* C13: a successful RestoreRelease has obtained the backup details and has
\* then made exactly two calls to the Helm client: UninstallRelease for the
\* namespace and the release, and after it InstallChart for the same namespace
\* and release with the chart path, the chart version and the values of the
\* backup.
C13_RestoreUninstallsThenInstalls ==
    (Restored /\ restoreOut.err.nil) =>
        /\ restoreOut.details.err.nil
        /\ helmClient.calls =
              <<[NoCall EXCEPT !.fn = "UninstallRelease",
                               !.namespace = restoreArgs.namespace,
                               !.releaseName = restoreArgs.releaseName],
                [NoCall EXCEPT !.fn = "InstallChart",
                               !.namespace = restoreArgs.namespace,
                               !.releaseName = restoreArgs.releaseName,
                               !.chartName = restoreOut.details.chartPath,
                               !.chartVersion = restoreOut.details.metadata.ChartVersion,
                               !.vals = restoreOut.details.metadata.Values,
                               !.createNamespace = restoreArgs.createNamespace,
                               !.wait = restoreArgs.wait]>>

C13_Witness ==
    /\ Restored
    /\ restoreOut.err.nil
    /\ restoreOut.rel.ptr # 0
    /\ helmClient.UninstallReleaseFunc = "fail"
    /\ restoreArgs.releaseName = "restore-test-release"
    /\ restoreArgs.backupID = "mock-restore-backup-id"
    /\ Len(helmClient.calls) = 2
    /\ helmClient.calls[2].vals = ("replicaCount" :> IntValue(3))

C14_NotFoundMakesNoHelmCall ==
    ((Restored \/ Upgraded) /\ ~ restoreOut.details.err.nil) =>
        /\ restoreOut.rel.ptr = 0
        /\ ~ restoreOut.err.nil
        /\ restoreOut.err.args = <<restoreOut.details.err>>
        /\ helmClient.calls = <<>>
        /\ bm.GetBackupDetailsFunc = Nil =>
              restoreOut.details.err.args = <<restoreArgs.releaseName, restoreArgs.backupID>>

C14_Witness ==
    /\ Restored
    /\ bm.GetBackupDetailsFunc = Nil
    /\ restoreArgs.releaseName = "myapp"
    /\ restoreArgs.backupID = "non-existent-backup-id"
    /\ ~ restoreOut.err.nil
    /\ helmClient.calls = <<>>

\* C15: UpgradeToBackup, once it has the backup details, makes exactly one call
\* to the Helm client: UpgradeRelease for the namespace and the release with the
\* chart path, the chart version and the values of the backup, installIfMissing
\* set and the caller's force flag.
C15_UpgradeCallsUpgradeReleaseOnce ==
    (Upgraded /\ restoreOut.details.err.nil) =>
        helmClient.calls =
            <<[NoCall EXCEPT !.fn = "UpgradeRelease",
                             !.namespace = restoreArgs.namespace,
                             !.releaseName = restoreArgs.releaseName,
                             !.chartName = restoreOut.details.chartPath,
                             !.chartVersion = restoreOut.details.metadata.ChartVersion,
                             !.vals = restoreOut.details.metadata.Values,
                             !.wait = restoreArgs.wait,
                             !.installIfMissing = TRUE,
                             !.force = restoreArgs.force]>>

C15_Witness ==
    /\ Upgraded
    /\ restoreOut.err.nil
    /\ restoreArgs.force
    /\ restoreArgs.releaseName = "upgrade-test-release"
    /\ restoreArgs.backupID = "mock-upgrade-backup-id"
    /\ Len(helmClient.calls) = 1
    /\ helmClient.calls[1].fn = "UpgradeRelease"

(***************************************************************************)
(* FileSystemBackupManager: ListBackups and PruneBackups.  The clock is in *)
(* milliseconds; backupLog holds the calls made so far with their results. *)
(***************************************************************************)
\* The number of ListBackups and PruneBackups calls followed.
MaxBackupCalls == 3

ListedReleases == {"list-test-release", "prune-test-release"}

KeepCounts == {1, 2}

\* Faulty variant: the backups are listed oldest first.
ListBackupsOldestFirst(releaseName, t) ==
    IF releaseName = "list-test-release"
    THEN [backups |->
             <<[NoMetadata EXCEPT !.BackupID = "mock-backup-id-1", !.Timestamp = t - 20,
                                  !.ReleaseName = releaseName, !.ChartName = "listchart",
                                  !.ChartVersion = "1.0.0", !.AppVersion = "1.0"],
               [NoMetadata EXCEPT !.BackupID = "mock-backup-id-2", !.Timestamp = t - 10,
                                  !.ReleaseName = releaseName, !.ChartName = "listchart",
                                  !.ChartVersion = "1.0.0", !.AppVersion = "1.0"],
               [NoMetadata EXCEPT !.BackupID = "mock-backup-id-3", !.Timestamp = t,
                                  !.ReleaseName = releaseName, !.ChartName = "listchart",
                                  !.ChartVersion = "1.0.0", !.AppVersion = "1.0"]>>,
          err |-> NoError]
    ELSE [backups |->
             <<[NoMetadata EXCEPT !.BackupID = "default-mock-id", !.Timestamp = t,
                                  !.ReleaseName = releaseName, !.ChartName = "mock-chart",
                                  !.ChartVersion = "0.1.0"]>>,
          err |-> NoError]

\* The built-in part of ListBackups at the time t: the returned backups and the
\* returned error.
ListBackups(releaseName, t) ==
    IF releaseName = "list-test-release"
    THEN [backups |->
             <<[NoMetadata EXCEPT !.BackupID = "mock-backup-id-3", !.Timestamp = t,
                                  !.ReleaseName = releaseName, !.ChartName = "listchart",
                                  !.ChartVersion = "1.0.0", !.AppVersion = "1.0"],
               [NoMetadata EXCEPT !.BackupID = "mock-backup-id-2", !.Timestamp = t - 10,
                                  !.ReleaseName = releaseName, !.ChartName = "listchart",
                                  !.ChartVersion = "1.0.0", !.AppVersion = "1.0"],
               [NoMetadata EXCEPT !.BackupID = "mock-backup-id-1", !.Timestamp = t - 20,
                                  !.ReleaseName = releaseName, !.ChartName = "listchart",
                                  !.ChartVersion = "1.0.0", !.AppVersion = "1.0"]>>,
          err |-> NoError]
    ELSE [backups |->
             <<[NoMetadata EXCEPT !.BackupID = "default-mock-id", !.Timestamp = t,
                                  !.ReleaseName = releaseName, !.ChartName = "mock-chart",
                                  !.ChartVersion = "0.1.0"]>>,
          err |-> NoError]

\* What an installed ListBackupsFunc returns.
ListBackupsFuncResults ==
    {[backups |-> <<>>, err |-> NoError],
     [backups |-> <<>>, err |-> Errorf("unexpected release for ListBackupsFunc", <<>>)]}

\* The built-in part of PruneBackups: the returned count and the returned error.
PruneBackups(releaseName, keepCount) ==
    IF releaseName = "prune-test-release" /\ keepCount = 2
    THEN [prunedCount |-> 3, err |-> NoError]
    ELSE [prunedCount |-> 1, err |-> NoError]

\* What an installed PruneBackupsFunc returns.
PruneBackupsFuncResults ==
    {[prunedCount |-> 3, err |-> NoError],
     [prunedCount |-> 0, err |-> Errorf("unexpected prune call", <<>>)]}

\* An entry of backupLog.
NoBackupCall ==
    [fn |-> "", releaseName |-> "", keepCount |-> 0, backups |-> <<>>, prunedCount |-> 0,
     err |-> NoError]

InitBackups ==
    /\ bm \in [baseBackupPath : {"backups"}, logger : {"log.Printf"},
               BackupReleaseFunc : {Nil}, GetBackupDetailsFunc : {Nil},
               RestoreReleaseFunc : {Nil}, UpgradeToBackupFunc : {Nil},
               ListBackupsFunc : {Nil, "override"}, DeleteBackupFunc : {Nil},
               PruneBackupsFunc : {Nil, "override"}]
    /\ helmClient = NoHelmClient
    /\ restoreArgs = NoRestoreArgs
    /\ restoreOut = NoRestore
    /\ clock = 0
    /\ backupLog = <<>>
    /\ IdleResolve
    /\ IdleConfigMap
    /\ IdleLoad
    /\ IdleProduct
    /\ IdleBackupctl
    /\ IdleValues
    /\ IdleCluster

\* m.ListBackups(releaseName) with ListBackupsFunc installed
CallListBackupsFunc ==
    /\ Len(backupLog) < MaxBackupCalls
    /\ bm.ListBackupsFunc # Nil
    /\ \E releaseName \in ListedReleases, r \in ListBackupsFuncResults :
          backupLog' = Append(backupLog, [NoBackupCall EXCEPT !.fn = "ListBackups",
                                                              !.releaseName = releaseName,
                                                              !.backups = r.backups,
                                                              !.err = r.err])
    /\ clock' = clock + 1
    /\ UNCHANGED <<bm, helmClient, restoreArgs, restoreOut, libVars, backupctlVars,
                   valuesVars, clusterVars>>

\* m.ListBackups(releaseName) with no ListBackupsFunc installed
CallListBackups ==
    /\ Len(backupLog) < MaxBackupCalls
    /\ bm.ListBackupsFunc = Nil
    /\ \E releaseName \in ListedReleases :
          LET r == ListBackups(releaseName, clock)
          IN backupLog' = Append(backupLog, [NoBackupCall EXCEPT !.fn = "ListBackups",
                                                                 !.releaseName = releaseName,
                                                                 !.backups = r.backups,
                                                                 !.err = r.err])
    /\ clock' = clock + 1
    /\ UNCHANGED <<bm, helmClient, restoreArgs, restoreOut, libVars, backupctlVars,
                   valuesVars, clusterVars>>

\* m.PruneBackups(releaseName, keepCount) with PruneBackupsFunc installed
CallPruneBackupsFunc ==
    /\ Len(backupLog) < MaxBackupCalls
    /\ bm.PruneBackupsFunc # Nil
    /\ \E releaseName \in ListedReleases, keepCount \in KeepCounts,
          r \in PruneBackupsFuncResults :
          backupLog' = Append(backupLog, [NoBackupCall EXCEPT !.fn = "PruneBackups",
                                                              !.releaseName = releaseName,
                                                              !.keepCount = keepCount,
                                                              !.prunedCount = r.prunedCount,
                                                              !.err = r.err])
    /\ clock' = clock + 1
    /\ UNCHANGED <<bm, helmClient, restoreArgs, restoreOut, libVars, backupctlVars,
                   valuesVars, clusterVars>>

\* m.PruneBackups(releaseName, keepCount) with no PruneBackupsFunc installed
CallPruneBackups ==
    /\ Len(backupLog) < MaxBackupCalls
    /\ bm.PruneBackupsFunc = Nil
    /\ \E releaseName \in ListedReleases, keepCount \in KeepCounts :
          LET r == PruneBackups(releaseName, keepCount)
          IN backupLog' = Append(backupLog, [NoBackupCall EXCEPT !.fn = "PruneBackups",
                                                                 !.releaseName = releaseName,
                                                                 !.keepCount = keepCount,
                                                                 !.prunedCount = r.prunedCount,
                                                                 !.err = r.err])
    /\ clock' = clock + 1
    /\ UNCHANGED <<bm, helmClient, restoreArgs, restoreOut, libVars, backupctlVars,
                   valuesVars, clusterVars>>

NextBackups ==
    \/ CallListBackupsFunc
    \/ CallListBackups
    \/ CallPruneBackupsFunc
    \/ CallPruneBackups

SpecBackups == InitBackups /\ [][NextBackups]_vars

(***************************************************************************)
(* Properties of ListBackups and PruneBackups.                             *)
(***************************************************************************)
\* The first n elements of a sequence (all of them when it is shorter).
Head_n(seq, n) == SubSeq(seq, 1, IF n < Len(seq) THEN n ELSE Len(seq))

BackupIDsOf(backups) == [i \in DOMAIN backups |-> backups[i].BackupID]

\* C16: with the built-in ListBackups and PruneBackups, a listing of a release
\* made after a successful PruneBackups(release, keep), with no call between
\* them, has at most keep backups, and they are the keep most recent ones of
\* the listing made just before the pruning.
C16_PruneKeepsMostRecent ==
    (bm.ListBackupsFunc = Nil /\ bm.PruneBackupsFunc = Nil) =>
        \A j \in DOMAIN backupLog :
            (/\ backupLog[j].fn = "PruneBackups"
             /\ backupLog[j].err.nil
             /\ j + 1 \in DOMAIN backupLog
             /\ backupLog[j + 1].fn = "ListBackups"
             /\ backupLog[j + 1].releaseName = backupLog[j].releaseName
             /\ backupLog[j + 1].err.nil) =>
                /\ Len(backupLog[j + 1].backups) <= backupLog[j].keepCount
                /\ (/\ j - 1 \in DOMAIN backupLog
                    /\ backupLog[j - 1].fn = "ListBackups"
                    /\ backupLog[j - 1].releaseName = backupLog[j].releaseName
                    /\ backupLog[j - 1].err.nil) =>
                       BackupIDsOf(backupLog[j + 1].backups) =
                           Head_n(BackupIDsOf(backupLog[j - 1].backups), backupLog[j].keepCount)

\* C17: the built-in ListBackups returns backups of the requested release only,
\* each one's Timestamp not before that of the next one.
C17_ListedNewestFirst ==
    bm.ListBackupsFunc = Nil =>
        \A j \in DOMAIN backupLog :
            backupLog[j].fn = "ListBackups" =>
                LET backups == backupLog[j].backups
                IN /\ backupLog[j].err.nil
                   /\ \A i \in DOMAIN backups : backups[i].ReleaseName = backupLog[j].releaseName
                   /\ \A i \in 1..(Len(backups) - 1) :
                         backups[i].Timestamp >= backups[i + 1].Timestamp

C17_Witness ==
    /\ bm.ListBackupsFunc = Nil
    /\ Len(backupLog) = 2
    /\ backupLog[2].fn = "ListBackups"
    /\ backupLog[2].releaseName = "list-test-release"
    /\ Len(backupLog[2].backups) = 3
    /\ backupLog[2].backups[1].BackupID = "mock-backup-id-3"
    /\ backupLog[2].backups[1].Timestamp > backupLog[2].backups[3].Timestamp

(***************************************************************************)
(* backupctl.  The arguments are Go strings; the standard flag package is  *)
(* modelled by what FlagSet.Parse does with them.  Of the commands, list,  *)
(* restore and upgrade are followed.                                       *)
(***************************************************************************)
aRestore == <<"r", "e", "s", "t", "o", "r", "e">>
aUpgrade == <<"u", "p", "g", "r", "a", "d", "e">>
aList == <<"l", "i", "s", "t">>
aStatus == <<"s", "t", "a", "t", "u", "s">>
aMyapp == <<"m", "y", "a", "p", "p">>
aBackupID == <<"2", "0", "2", "3", "0", "1", "0", "1", "-", "1", "2", "0", "0", "0", "0", ".", "0", "0", "0", "0", "0", "0">>
fKubeconfig == <<"k", "u", "b", "e", "c", "o", "n", "f", "i", "g">>
fBackupDir == <<"b", "a", "c", "k", "u", "p", "-", "d", "i", "r">>
fOutput == <<"o", "u", "t", "p", "u", "t">>
fHelmNamespace == <<"h", "e", "l", "m", "-", "n", "a", "m", "e", "s", "p", "a", "c", "e">>
fNamespace == <<"n", "a", "m", "e", "s", "p", "a", "c", "e">>
fCreateNamespace == <<"c", "r", "e", "a", "t", "e", "-", "n", "a", "m", "e", "s", "p", "a", "c", "e">>
fWait == <<"w", "a", "i", "t">>
fTimeout == <<"t", "i", "m", "e", "o", "u", "t">>
fForce == <<"f", "o", "r", "c", "e">>
fHelp == <<"h", "e", "l", "p">>
fH == <<"h">>
aDefaultBackupRoot == <<".", "/", "c", "h", "a", "r", "t", "_", "b", "a", "c", "k", "u", "p", "s">>
aText == <<"t", "e", "x", "t">>
aJson == <<"j", "s", "o", "n">>
aYaml == <<"y", "a", "m", "l">>
aJSON == <<"J", "S", "O", "N">>
aTrue == <<"t", "r", "u", "e">>
aFalse == <<"f", "a", "l", "s", "e">>
a5m == <<"5", "m">>
a10m == <<"1", "0", "m">>
aSoon == <<"s", "o", "o", "n">>
aProd == <<"p", "r", "o", "d">>
aDev == <<"d", "e", "v">>
aOps == <<"o", "p", "s">>
aCtx == <<"c", "t", "x", "-", "n", "s">>
aDefault == <<"d", "e", "f", "a", "u", "l", "t">>
optNamespace == <<"-", "-", "n", "a", "m", "e", "s", "p", "a", "c", "e">>
optNamespaceDev == <<"-", "-", "n", "a", "m", "e", "s", "p", "a", "c", "e", "=", "d", "e", "v">>
optWait == <<"-", "-", "w", "a", "i", "t">>
optCreateNamespace == <<"-", "-", "c", "r", "e", "a", "t", "e", "-", "n", "a", "m", "e", "s", "p", "a", "c", "e">>
optTimeout == <<"-", "-", "t", "i", "m", "e", "o", "u", "t">>
optForce == <<"-", "-", "f", "o", "r", "c", "e">>
optOutput == <<"-", "-", "o", "u", "t", "p", "u", "t">>
optOutputJSON == <<"-", "-", "o", "u", "t", "p", "u", "t", "=", "J", "S", "O", "N">>
optHelmNamespace == <<"-", "-", "h", "e", "l", "m", "-", "n", "a", "m", "e", "s", "p", "a", "c", "e">>

\* strings.Index(s[i:], c) + i: the first position of c in s from i on, 0 when
\* there is none.
RECURSIVE IndexFrom(_, _, _)
IndexFrom(s, c, i) ==
    IF i > Len(s) THEN 0 ELSE IF s[i] = c THEN i ELSE IndexFrom(s, c, i + 1)

\* strconv.ParseBool
ParseBool(str) ==
    IF str \in {<<"1">>, <<"t">>, <<"T">>, aTrue, <<"T", "R", "U", "E">>, <<"T", "r", "u", "e">>}
    THEN [ok |-> TRUE, b |-> aTrue]
    ELSE IF str \in {<<"0">>, <<"f">>, <<"F">>, aFalse, <<"F", "A", "L", "S", "E">>,
                     <<"F", "a", "l", "s", "e">>}
    THEN [ok |-> TRUE, b |-> aFalse]
    ELSE [ok |-> FALSE, b |-> aFalse]

\* time.ParseDuration on the durations of the command lines, in seconds.
ParseDuration(str) ==
    IF str = a5m THEN [ok |-> TRUE, d |-> 300]
    ELSE IF str = a10m THEN [ok |-> TRUE, d |-> 600]
    ELSE [ok |-> FALSE, d |-> 0]

\* strings.ToLower on the letters of the output formats.
ToLower(str) ==
    LET lower == ("J" :> "j") @@ ("S" :> "s") @@ ("O" :> "o") @@ ("N" :> "n") @@
                 ("Y" :> "y") @@ ("A" :> "a") @@ ("M" :> "m") @@ ("L" :> "l")
    IN [i \in DOMAIN str |-> IF str[i] \in DOMAIN lower THEN lower[str[i]] ELSE str[i]]

\* The flag sets: for every flag whether it is boolean, and its default.
GlobalFlags ==
    (fKubeconfig :> [isBool |-> FALSE, default |-> <<>>]) @@
    (fBackupDir :> [isBool |-> FALSE, default |-> aDefaultBackupRoot]) @@
    (fOutput :> [isBool |-> FALSE, default |-> aText]) @@
    (fHelmNamespace :> [isBool |-> FALSE, default |-> <<>>])

listCmd == EmptyMap

restoreCmd ==
    (fNamespace :> [isBool |-> FALSE, default |-> <<>>]) @@
    (fCreateNamespace :> [isBool |-> TRUE, default |-> aFalse]) @@
    (fWait :> [isBool |-> TRUE, default |-> aFalse]) @@
    (fTimeout :> [isBool |-> FALSE, default |-> a5m])

upgradeCmd ==
    (fNamespace :> [isBool |-> FALSE, default |-> <<>>]) @@
    (fWait :> [isBool |-> TRUE, default |-> aFalse]) @@
    (fTimeout :> [isBool |-> FALSE, default |-> a5m]) @@
    (fForce :> [isBool |-> TRUE, default |-> aFalse])

Defaults(flags) == [name \in DOMAIN flags |-> flags[name].default]

\* flag.FlagSet.Parse: the values of the flags after the arguments are read,
\* the arguments left (from the first one that is not a flag), and what went
\* wrong ("" when nothing did).
RECURSIVE Parse(_, _, _)
Parse(flags, values, args) ==
    IF args = <<>> THEN [values |-> values, args |-> args, err |-> ""]
    ELSE LET s == Head(args)
         IN IF Len(s) < 2 \/ s[1] # "-"
            THEN [values |-> values, args |-> args, err |-> ""]
            ELSE IF s[2] = "-" /\ Len(s) = 2
            THEN [values |-> values, args |-> Tail(args), err |-> ""]
            ELSE LET numMinuses == IF s[2] = "-" THEN 2 ELSE 1
                     full == SubSeq(s, numMinuses + 1, Len(s))
                     eq == IndexFrom(full, "=", 2)
                     name == IF eq = 0 THEN full ELSE SubSeq(full, 1, eq - 1)
                     value == IF eq = 0 THEN <<>> ELSE SubSeq(full, eq + 1, Len(full))
                 IN IF full[1] \in {"-", "="}
                    THEN [values |-> values, args |-> Tail(args), err |-> "bad flag syntax"]
                    ELSE IF name \notin DOMAIN flags
                    THEN [values |-> values, args |-> Tail(args),
                          err |-> IF name \in {fHelp, fH} THEN "help"
                                  ELSE "flag provided but not defined"]
                    ELSE IF flags[name].isBool
                    THEN IF eq = 0
                         THEN Parse(flags, [values EXCEPT ![name] = aTrue], Tail(args))
                         ELSE IF ParseBool(value).ok
                         THEN Parse(flags, [values EXCEPT ![name] = ParseBool(value).b],
                                    Tail(args))
                         ELSE [values |-> values, args |-> Tail(args),
                               err |-> "invalid boolean value"]
                    ELSE IF eq # 0
                    THEN Parse(flags, [values EXCEPT ![name] = value], Tail(args))
                    ELSE IF Tail(args) # <<>>
                    THEN Parse(flags, [values EXCEPT ![name] = Head(Tail(args))],
                               Tail(Tail(args)))
                    ELSE [values |-> values, args |-> Tail(args),
                          err |-> "flag needs an argument"]

\* A call of the backup manager by main.
NoManagerCall ==
    [fn |-> "", namespace |-> <<>>, releaseName |-> <<>>, backupID |-> <<>>,
     createNamespace |-> FALSE, wait |-> FALSE, force |-> FALSE, timeout |-> 0]

\* What a run of backupctl did: the exit code, the values of the global flags and
\* of the command's flags, the call of the backup manager, the format the list
\* was printed in.
Exit(code) ==
    [done |-> TRUE, code |-> code, globals |-> Defaults(GlobalFlags), flags |-> EmptyMap,
     call |-> NoManagerCall, format |-> ""]

\* Faulty variant: the global --helm-namespace wins over the command's
\* --namespace.
NamespaceForGlobalFirst(commandNamespace, helmNamespace, auth) ==
    IF helmNamespace # <<>> THEN helmNamespace
    ELSE IF commandNamespace # <<>> THEN commandNamespace
    ELSE IF auth.fails THEN aDefault
    ELSE auth.namespace

\* The namespace of the restore and of the upgrade operation.
NamespaceFor(commandNamespace, helmNamespace, auth) ==
    IF commandNamespace # <<>> THEN commandNamespace
    ELSE IF helmNamespace # <<>> THEN helmNamespace
    ELSE IF auth.fails THEN aDefault
    ELSE auth.namespace

\* printBackupList: the format the list is printed in.
printBackupList(format) ==
    IF ToLower(format) = aJson THEN "json"
    ELSE IF ToLower(format) = aYaml THEN "yaml"
    ELSE "text"

\* case "list"
RunList(globals, commandArgs) ==
    LET p == Parse(listCmd, Defaults(listCmd), commandArgs)
    IN IF p.err # "" THEN Exit(IF p.err = "help" THEN 0 ELSE 2)
       ELSE IF Len(p.args) < 1 THEN [Exit(1) EXCEPT !.globals = globals]
       ELSE [Exit(0) EXCEPT !.globals = globals,
                            !.call = [NoManagerCall EXCEPT !.fn = "ListBackups",
                                                           !.releaseName = p.args[1]],
                            !.format = printBackupList(globals[fOutput])]

\* case "restore"
RunRestore(globals, commandArgs, auth, restored) ==
    LET p == Parse(restoreCmd, Defaults(restoreCmd), commandArgs)
    IN IF p.err # "" THEN Exit(IF p.err = "help" THEN 0 ELSE 2)
       ELSE IF Len(p.args) < 2 \/ ~ ParseDuration(p.values[fTimeout]).ok
       THEN [Exit(1) EXCEPT !.globals = globals, !.flags = p.values]
       ELSE [Exit(IF restored THEN 0 ELSE 1) EXCEPT
                !.globals = globals,
                !.flags = p.values,
                !.call = [NoManagerCall EXCEPT
                             !.fn = "RestoreRelease",
                             !.namespace = NamespaceFor(p.values[fNamespace],
                                                        globals[fHelmNamespace], auth),
                             !.releaseName = p.args[1],
                             !.backupID = p.args[2],
                             !.createNamespace = p.values[fCreateNamespace] = aTrue,
                             !.wait = p.values[fWait] = aTrue,
                             !.timeout = ParseDuration(p.values[fTimeout]).d]]

\* case "upgrade"
RunUpgrade(globals, commandArgs, auth, upgraded) ==
    LET p == Parse(upgradeCmd, Defaults(upgradeCmd), commandArgs)
    IN IF p.err # "" THEN Exit(IF p.err = "help" THEN 0 ELSE 2)
       ELSE IF Len(p.args) < 2 \/ ~ ParseDuration(p.values[fTimeout]).ok
       THEN [Exit(1) EXCEPT !.globals = globals, !.flags = p.values]
       ELSE [Exit(IF upgraded THEN 0 ELSE 1) EXCEPT
                !.globals = globals,
                !.flags = p.values,
                !.call = [NoManagerCall EXCEPT
                             !.fn = "UpgradeToBackup",
                             !.namespace = NamespaceFor(p.values[fNamespace],
                                                        globals[fHelmNamespace], auth),
                             !.releaseName = p.args[1],
                             !.backupID = p.args[2],
                             !.wait = p.values[fWait] = aTrue,
                             !.force = p.values[fForce] = aTrue,
                             !.timeout = ParseDuration(p.values[fTimeout]).d]]

\* main of backupctl on the arguments after the program name: clientCreated
\* says whether helmutils.NewClient succeeds, succeeded whether the restore or
\* upgrade does.
main(args, auth, clientCreated, succeeded) ==
    IF args = <<>> THEN Exit(1)
    ELSE LET g == Parse(GlobalFlags, Defaults(GlobalFlags), args)
         IN IF g.err # "" THEN Exit(IF g.err = "help" THEN 0 ELSE 2)
            ELSE IF g.args = <<>> \/ g.values[fBackupDir] = <<>>
            THEN [Exit(1) EXCEPT !.globals = g.values]
            ELSE LET command == Head(g.args)
                     commandArgs == Tail(g.args)
                 IN IF command \in {aRestore, aUpgrade} /\ ~ clientCreated
                    THEN [Exit(1) EXCEPT !.globals = g.values]
                    ELSE IF command = aList THEN RunList(g.values, commandArgs)
                    ELSE IF command = aRestore
                    THEN RunRestore(g.values, commandArgs, auth, succeeded)
                    ELSE IF command = aUpgrade
                    THEN RunUpgrade(g.values, commandArgs, auth, succeeded)
                    ELSE [Exit(1) EXCEPT !.globals = g.values]

\* The command lines: global options, the command, its options before or
\* after its arguments.
GlobalOptions ==
    {<<>>, <<optHelmNamespace, aOps>>, <<optOutput, aJson>>, <<optOutputJSON>>}

CommandOptions ==
    {<<>>, <<optNamespace, aProd>>, <<optWait>>, <<optNamespace, aProd, optWait>>,
     <<optNamespaceDev, optCreateNamespace>>, <<optTimeout, aSoon>>,
     <<optNamespace, aDev, optTimeout, a10m>>, <<optForce>>}

CommandLines ==
    {g \o <<c>> \o o \o p : g \in GlobalOptions, c \in {aRestore, aUpgrade},
                            o \in CommandOptions, p \in {<<aMyapp, aBackupID>>, <<aMyapp>>}}
    \cup {g \o <<c>> \o <<aMyapp, aBackupID>> \o o :
             g \in GlobalOptions, c \in {aRestore, aUpgrade}, o \in CommandOptions}
    \cup {g \o <<aList>> \o p \o o : g \in GlobalOptions, p \in {<<>>, <<aMyapp>>},
                                     o \in {<<>>, <<optOutput, aJson>>}}
    \cup {<<>>, <<aStatus>>}

\* What GetCurrentNamespace of the auth checker returns.
AuthCheckers == {[namespace |-> aCtx, fails |-> FALSE], [namespace |-> aDefault, fails |-> TRUE]}

InitBackupctl ==
    /\ osArgs \in CommandLines
    /\ k8sAuth \in AuthCheckers
    /\ cliOut = NoCommand
    /\ IdleResolve
    /\ IdleConfigMap
    /\ IdleLoad
    /\ IdleProduct
    /\ IdleBackup
    /\ IdleValues
    /\ IdleCluster

\* backupctl runs
RunBackupctl ==
    /\ ~ cliOut.done
    /\ \E clientCreated \in BOOLEAN, succeeded \in BOOLEAN :
          cliOut' = main(osArgs, k8sAuth, clientCreated, succeeded)
    /\ UNCHANGED <<osArgs, k8sAuth, libVars, backupVars, valuesVars, clusterVars>>

NextBackupctl == RunBackupctl

SpecBackupctl == InitBackupctl /\ [][NextBackupctl]_vars

(***************************************************************************)
(* Properties of backupctl.                                                *)
(***************************************************************************)
\* C18: the namespace handed to RestoreRelease / UpgradeToBackup is the value
\* of the command's --namespace flag if it is not empty, else the value of the
\* global --helm-namespace flag if it is not empty, else the current namespace
\* of the auth checker, and "default" when that cannot be determined.
C18_NamespacePrecedence ==
    (cliOut.done /\ cliOut.call.fn \in {"RestoreRelease", "UpgradeToBackup"}) =>
        /\ cliOut.flags[fNamespace] # <<>> => cliOut.call.namespace = cliOut.flags[fNamespace]
        /\ (cliOut.flags[fNamespace] = <<>> /\ cliOut.globals[fHelmNamespace] # <<>>) =>
              cliOut.call.namespace = cliOut.globals[fHelmNamespace]
        /\ (/\ cliOut.flags[fNamespace] = <<>>
            /\ cliOut.globals[fHelmNamespace] = <<>>
            /\ ~ k8sAuth.fails) => cliOut.call.namespace = k8sAuth.namespace
        /\ (/\ cliOut.flags[fNamespace] = <<>>
            /\ cliOut.globals[fHelmNamespace] = <<>>
            /\ k8sAuth.fails) => cliOut.call.namespace = aDefault

C18_Witness ==
    /\ cliOut.done
    /\ cliOut.call.fn = "UpgradeToBackup"
    /\ osArgs = <<optHelmNamespace, aOps, aUpgrade, optNamespace, aProd, aMyapp, aBackupID>>
    /\ cliOut.flags[fNamespace] = aProd
    /\ cliOut.globals[fHelmNamespace] = aOps
    /\ cliOut.call.namespace = aProd

\* C19: the documented command lines with the options after the arguments take
\* effect: restore <releaseName> <backupID> --namespace <ns> --wait restores in
\* the namespace <ns> with wait set, and list <releaseName> --output json
\* prints the list as JSON.
C19_OptionsAfterArguments ==
    /\ (cliOut.done /\ osArgs = <<aRestore, aMyapp, aBackupID, optNamespace, aProd, optWait>>
                    /\ cliOut.call.fn = "RestoreRelease") =>
          cliOut.call.namespace = aProd /\ cliOut.call.wait
    /\ (cliOut.done /\ osArgs = <<aList, aMyapp, optOutput, aJson>>) =>
          cliOut.format = "json"

(***************************************************************************)
(* The value loaders of the command line tools: loadValues of backupctl,   *)
(* loadValuesForInstantiation of productctl and loadValues of helmctl.  A  *)
(* values map holds strings and nested maps.                               *)
(***************************************************************************)
MapValue(m) == [kind |-> "map", m |-> m]

\* strings.Split(s, c)
RECURSIVE Split(_, _)
Split(s, c) ==
    LET i == IndexFrom(s, c, 1)
    IN IF i = 0 THEN <<s>>
       ELSE <<SubSeq(s, 1, i - 1)>> \o Split(SubSeq(s, i + 1, Len(s)), c)

\* strings.SplitN(s, c, 2)
SplitN2(s, c) ==
    LET i == IndexFrom(s, c, 1)
    IN IF i = 0 THEN <<s>> ELSE <<SubSeq(s, 1, i - 1), SubSeq(s, i + 1, Len(s))>>

\* strings.TrimSpace
RECURSIVE TrimSpace(_)
TrimSpace(s) ==
    IF s # <<>> /\ s[1] = " " THEN TrimSpace(Tail(s))
    ELSE IF s # <<>> /\ s[Len(s)] = " " THEN TrimSpace(SubSeq(s, 1, Len(s) - 1))
    ELSE s

\* The values files: what os.ReadFile and yaml.Unmarshal make of them.
ValuesFiles == ("values.yaml" :> (<<"a">> :> StringValue(<<"0">>)))

ValuesFileNames == {"", "values.yaml", "missing.yaml"}

setOne == <<"a", "=", "1">>
setTwo == <<"a", "=", "1", ",", "b", "=", "2">>
setNested == <<"a", ".", "b", "=", "1">>
setConflict == <<"a", "=", "1", ",", "a", ".", "b", "=", "2">>
setBare == <<"a">>
setBareSecond == <<"a", "=", "1", ",", "b">>
setSpaces == <<" ", "a", " ", "=", " ", "1">>
setTwoEquals == <<"k", "=", "v", "=", "w">>

SetValues ==
    {<<>>, setOne, setTwo, setNested, setConflict, setBare, setBareSecond, setSpaces,
     setTwoEquals}

\* The loop over the keys of one pair: the map with the value stored at the
\* path of keys from the i-th on; ok is false when a key on the way holds a
\* string.
RECURSIVE SetPath(_, _, _, _)
SetPath(currentMap, keys, value, i) ==
    IF i = Len(keys)
    THEN [ok |-> TRUE, m |-> Put(currentMap, keys[i], StringValue(value))]
    ELSE LET next == IF keys[i] \in DOMAIN currentMap THEN currentMap[keys[i]]
                     ELSE MapValue(EmptyMap)
         IN IF next.kind # "map" THEN [ok |-> FALSE, m |-> currentMap]
            ELSE LET r == SetPath(next.m, keys, value, i + 1)
                 IN [ok |-> r.ok, m |-> Put(currentMap, keys[i], MapValue(r.m))]

\* A returned values map (nil when isNil) and the returned error.
NilValues(err) == [called |-> TRUE, isNil |-> TRUE, values |-> EmptyMap, err |-> err]

Values(m) == [called |-> TRUE, isNil |-> FALSE, values |-> m, err |-> NoError]

\* The loop over the pairs of --set in backupctl and productctl, from the i-th
\* pair on.
RECURSIVE SetPairs(_, _, _)
SetPairs(vals, pairs, i) ==
    IF i > Len(pairs) THEN Values(vals)
    ELSE LET kv == SplitN2(pairs[i], "=")
         IN IF Len(kv) # 2
            THEN NilValues(Errorf("invalid --set format: %s. Expected key=value", <<pairs[i]>>))
            ELSE LET r == SetPath(vals, Split(kv[1], "."), kv[2], 1)
                 IN IF ~ r.ok
                    THEN NilValues(Errorf("invalid --set key structure", <<kv[1]>>))
                    ELSE SetPairs(r.m, pairs, i + 1)

\* The loop over the pairs of --set in helmctl, from the i-th pair on.
RECURSIVE SetPairsHelmctl(_, _, _)
SetPairsHelmctl(mergedVals, rawSet, i) ==
    IF i > Len(rawSet) THEN Values(mergedVals)
    ELSE LET kv == SplitN2(rawSet[i], "=")
         IN IF Len(kv) = 2
            THEN LET dotted == Split(kv[1], ".")
                     keys == [j \in DOMAIN dotted |-> TrimSpace(dotted[j])]
                     r == SetPath(mergedVals, keys, TrimSpace(kv[2]), 1)
                 IN IF ~ r.ok
                    THEN NilValues(Errorf("error setting value for %s", <<kv[1]>>))
                    ELSE SetPairsHelmctl(r.m, rawSet, i + 1)
            ELSE SetPairsHelmctl(mergedVals, rawSet, i + 1)

\* The part of the three loaders that reads the values file.
ReadValuesFile(valuesFile) ==
    IF valuesFile = "" THEN Values(EmptyMap)
    ELSE IF valuesFile \notin DOMAIN ValuesFiles
    THEN NilValues(Errorf("failed to read values file %s: %w", <<valuesFile>>))
    ELSE Values(ValuesFiles[valuesFile])

\* loadValues of backupctl
loadValues(valuesFile, set) ==
    LET base == ReadValuesFile(valuesFile)
    IN IF base.isNil \/ set = <<>> THEN base
       ELSE LET vals == SetPairs(EmptyMap, Split(set, ","), 1)
            IN IF vals.isNil THEN vals ELSE Values(vals.values @@ base.values)

\* loadValuesForInstantiation of productctl
loadValuesForInstantiation(valuesFile, set) ==
    LET base == ReadValuesFile(valuesFile)
    IN IF base.isNil \/ set = <<>> THEN base
       ELSE SetPairs(base.values, Split(set, ","), 1)

\* loadValues of helmctl
loadValuesHelmctl(valuesFile, set) ==
    LET mergedVals == ReadValuesFile(valuesFile)
    IN IF mergedVals.isNil \/ set = <<>> THEN mergedVals
       ELSE SetPairsHelmctl(mergedVals.values, Split(set, ","), 1)

InitValues ==
    /\ valuesArgs \in [valuesFile : ValuesFileNames, setValues : SetValues]
    /\ valuesOut = NoValues
    /\ IdleResolve
    /\ IdleConfigMap
    /\ IdleLoad
    /\ IdleProduct
    /\ IdleBackup
    /\ IdleBackupctl
    /\ IdleCluster

\* backupctl: loadValues(*backupValuesFile, *backupSetValues)
CallLoadValues ==
    /\ ~ valuesOut.backupctl.called
    /\ valuesOut' = [valuesOut EXCEPT
                        !.backupctl = loadValues(valuesArgs.valuesFile, valuesArgs.setValues)]
    /\ UNCHANGED <<valuesArgs, libVars, backupVars, backupctlVars, clusterVars>>

\* productctl: loadValuesForInstantiation(*instantiateValuesFile, *instantiateSetValues)
CallLoadValuesForInstantiation ==
    /\ ~ valuesOut.productctl.called
    /\ valuesOut' = [valuesOut EXCEPT
                        !.productctl = loadValuesForInstantiation(valuesArgs.valuesFile,
                                                                  valuesArgs.setValues)]
    /\ UNCHANGED <<valuesArgs, libVars, backupVars, backupctlVars, clusterVars>>

\* helmctl: loadValues(valuesFile, setValues)
CallLoadValuesHelmctl ==
    /\ ~ valuesOut.helmctl.called
    /\ valuesOut' = [valuesOut EXCEPT
                        !.helmctl = loadValuesHelmctl(valuesArgs.valuesFile,
                                                      valuesArgs.setValues)]
    /\ UNCHANGED <<valuesArgs, libVars, backupVars, backupctlVars, clusterVars>>

NextValues ==
    \/ CallLoadValues
    \/ CallLoadValuesForInstantiation
    \/ CallLoadValuesHelmctl

SpecValues == InitValues /\ [][NextValues]_vars

(***************************************************************************)
(* Properties of the value loaders.                                        *)
(***************************************************************************)
\* A --set value with an element that is not of the form key=value.
Malformed(set) ==
    set # <<>> /\ \E i \in DOMAIN Split(set, ",") : IndexFrom(Split(set, ",")[i], "=", 1) = 0

\* C20: every one of the three loaders, given a --set value with an element
\* that is not of the form key=value, returns an error and no values map.
C20_MalformedSetRejected ==
    Malformed(valuesArgs.setValues) =>
        \A tool \in {"backupctl", "productctl", "helmctl"} :
            valuesOut[tool].called => ~ valuesOut[tool].err.nil /\ valuesOut[tool].isNil

(***************************************************************************)
(* helmutils: NewClient over a MockK8sAuthChecker.                         *)
(***************************************************************************)
Mocked(value) == [mocked |-> TRUE, value |-> value, fails |-> FALSE]

MockedError(msg) == [mocked |-> TRUE, value |-> msg, fails |-> TRUE]

\* MockK8sAuthChecker.GetKubeConfig: the host of the configuration and the error
GetKubeConfig(m) ==
    IF m.MockGetKubeConfig.mocked
    THEN IF m.MockGetKubeConfig.fails
         THEN [config |-> "", err |-> Errorf(m.MockGetKubeConfig.value, <<>>)]
         ELSE [config |-> m.MockGetKubeConfig.value, err |-> NoError]
    ELSE [config |-> "http://fake.cluster.local", err |-> NoError]

\* MockK8sAuthChecker.GetCurrentNamespace
GetCurrentNamespace(m) ==
    IF m.MockGetCurrentNamespace.mocked
    THEN IF m.MockGetCurrentNamespace.fails
         THEN [ns |-> "", err |-> Errorf(m.MockGetCurrentNamespace.value, <<>>)]
         ELSE [ns |-> m.MockGetCurrentNamespace.value, err |-> NoError]
    ELSE [ns |-> "test-default-ns-from-mock", err |-> NoError]

\* cli.New: the settings, with the namespace of the environment
New(env) == [namespace |-> env]

\* EnvSettings.SetNamespace
SetNamespace(settings, namespace) == [settings EXCEPT !.namespace = namespace]

\* The logger NewClient writes to.
ActualLogger(logger) == IF logger = Nil THEN "log.Printf" ELSE logger

sWarningNamespace ==
    "Warning: could not determine current namespace via authChecker, using settings default: %v"

\* Faulty variant: a failing GetCurrentNamespace makes NewClient fail.
NewClientNamespaceRequired(m, args, env) ==
    LET cur == GetCurrentNamespace(m)
        kube == GetKubeConfig(m)
        lookup == args.defaultNamespace = ""
    IN IF (lookup /\ ~ cur.err.nil) \/ ~ kube.err.nil
       THEN [called |-> TRUE, client |-> NilClient,
             err |-> IF lookup /\ ~ cur.err.nil THEN cur.err ELSE kube.err,
             calls |-> <<"GetCurrentNamespace">>, log |-> <<>>]
       ELSE [called |-> TRUE,
             client |-> [isNil |-> FALSE,
                         settings |-> IF lookup THEN SetNamespace(New(env), cur.ns)
                                      ELSE SetNamespace(New(env), args.defaultNamespace),
                         baseKubeConfig |-> kube.config],
             err |-> NoError,
             calls |-> IF lookup THEN <<"GetCurrentNamespace", "GetKubeConfig">>
                       ELSE <<"GetKubeConfig">>,
             log |-> <<>>]

\* NewClient
NewClient(m, args, env) ==
    LET actualLogger == ActualLogger(args.logger)
        lookup == args.defaultNamespace = ""
        cur == GetCurrentNamespace(m)
        settings == IF ~ lookup THEN SetNamespace(New(env), args.defaultNamespace)
                    ELSE IF ~ cur.err.nil THEN New(env)
                    ELSE SetNamespace(New(env), cur.ns)
        log == IF lookup /\ ~ cur.err.nil
               THEN <<[logger |-> actualLogger, format |-> sWarningNamespace,
                       v |-> <<cur.err>>]>>
               ELSE <<>>
        kube == GetKubeConfig(m)
        calls == (IF lookup THEN <<"GetCurrentNamespace">> ELSE <<>>) \o <<"GetKubeConfig">>
    IN IF ~ kube.err.nil
       THEN [called |-> TRUE, client |-> NilClient, err |-> kube.err, calls |-> calls,
             log |-> log]
       ELSE [called |-> TRUE,
             client |-> [isNil |-> FALSE, settings |-> settings,
                         baseKubeConfig |-> kube.config],
             err |-> NoError, calls |-> calls, log |-> log]

\* The mocked functions of the tests of NewClient.
MockedNamespaces ==
    {NotMocked, Mocked("auth-current-ns"), Mocked(""),
     MockedError("mock GetCurrentNamespace error")}

MockedKubeConfigs ==
    {NotMocked, Mocked("http://fake.cluster.local"), MockedError("mock GetKubeConfig error")}

DefaultNamespaces == {"", "helm-op-ns"}

Loggers == {Nil, "mockLogger"}

HelmNamespaces == {"", "default", "env-ns"}

InitNewClient ==
    /\ authChecker \in [MockGetCurrentNamespace : MockedNamespaces,
                        MockGetKubeConfig : MockedKubeConfigs]
    /\ newClientArgs \in [defaultNamespace : DefaultNamespaces, logger : Loggers]
    /\ helmEnv \in HelmNamespaces
    /\ newClientOut = NoNewClient
    /\ IdleResolve
    /\ IdleConfigMap
    /\ IdleLoad
    /\ IdleProduct
    /\ IdleBackup
    /\ IdleBackupctl
    /\ IdleValues
    /\ IdleAuth

CallNewClient ==
    /\ ~ newClientOut.called
    /\ newClientOut' = NewClient(authChecker, newClientArgs, helmEnv)
    /\ UNCHANGED <<authChecker, newClientArgs, helmEnv, libVars, backupVars, backupctlVars,
                   valuesVars, authVars>>

NextNewClient == CallNewClient

SpecNewClient == InitNewClient /\ [][NextNewClient]_vars

(***************************************************************************)
(* Properties of NewClient.                                                *)
(***************************************************************************)
\* C21: NewClient fails, with no client, exactly when GetKubeConfig of the
\* auth checker fails.  Otherwise the namespace of the settings is
\* defaultNamespace if that is not empty, and then GetCurrentNamespace is not
\* called; else it is the current namespace of the auth checker; and if that
\* lookup fails the settings keep their default namespace and a warning is
\* logged.
C21_NewClientNamespace ==
    newClientOut.called =>
        LET out == newClientOut
            cur == GetCurrentNamespace(authChecker)
            lookedUp == \E i \in DOMAIN out.calls : out.calls[i] = "GetCurrentNamespace"
            warned == \E i \in DOMAIN out.log : out.log[i].format = sWarningNamespace
        IN /\ ~ out.err.nil <=> ~ GetKubeConfig(authChecker).err.nil
           /\ ~ out.err.nil => out.client.isNil
           /\ out.err.nil =>
                /\ ~ out.client.isNil
                /\ IF newClientArgs.defaultNamespace # ""
                   THEN /\ out.client.settings.namespace = newClientArgs.defaultNamespace
                        /\ ~ lookedUp
                   ELSE IF ~ cur.err.nil
                   THEN /\ out.client.settings.namespace = New(helmEnv).namespace
                        /\ warned
                   ELSE out.client.settings.namespace = cur.ns

\* A call with no defaultNamespace whose namespace lookup failed and which
\* returned a client.
C21_Witness ==
    /\ newClientOut.called
    /\ newClientArgs.defaultNamespace = ""
    /\ ~ GetCurrentNamespace(authChecker).err.nil
    /\ ~ newClientOut.client.isNil
    /\ helmEnv # ""

(***************************************************************************)
(* k8sutils: AuthUtil.CheckNamespacePermissions over a fake clientset.     *)
(***************************************************************************)
\* The reactor of TestAuthUtil_CheckNamespacePermissions: Status.Allowed of the
\* response.
ReactorAllows(namespace, resource, verb) ==
    IF namespace = "test-ns"
    THEN IF resource = "pods" THEN verb # "list"
         ELSE IF resource = "services" THEN verb = "create"
         ELSE FALSE
    ELSE FALSE

\* SelfSubjectAccessReviews().Create on the clientset: the response and the
\* error.  Without a reactor the fake clientset hands the review back as it was
\* created, Status.Allowed unset.
Create(cs, sar) ==
    IF sar.verb \in cs.failing
    THEN [allowed |-> FALSE, err |-> Errorf("simulated API error", <<>>)]
    ELSE [allowed |-> cs.reactor /\ ReactorAllows(sar.namespace, sar.resource, sar.verb),
          err |-> NoError]

\* AuthUtil.GetClientset
GetClientset(u) ==
    IF u.GetClientsetFunc = "fail"
    THEN [cs |-> NilClientset, err |-> Errorf("GetClientsetFunc error", <<>>)]
    ELSE IF u.GetClientsetFunc = "nil clientset" THEN [cs |-> NilClientset, err |-> NoError]
    ELSE IF u.clientset.isNil THEN [cs |-> SimpleClientset, err |-> NoError]
    ELSE [cs |-> u.clientset, err |-> NoError]

\* What a CheckNamespacePermissionsFunc installed by a test may return.
CheckNamespacePermissionsFuncResults ==
    {[called |-> TRUE, isNil |-> FALSE, results |-> ("get" :> TRUE), err |-> NoError,
      reviews |-> <<>>],
     [called |-> TRUE, isNil |-> TRUE, results |-> EmptyMap,
      err |-> Errorf("CheckNamespacePermissionsFunc error", <<>>), reviews |-> <<>>]}

\* The loop of CheckNamespacePermissions over the verbs, from the i-th on.
RECURSIVE ReviewVerbs(_, _, _, _, _, _, _)
ReviewVerbs(cs, namespace, resource, verbs, i, results, reviews) ==
    IF i > Len(verbs)
    THEN [called |-> TRUE, isNil |-> FALSE, results |-> results, err |-> NoError,
          reviews |-> reviews]
    ELSE LET sar == [namespace |-> namespace, verb |-> verbs[i], resource |-> resource]
             response == Create(cs, sar)
         IN ReviewVerbs(cs, namespace, resource, verbs, i + 1,
                        Put(results, verbs[i], response.err.nil /\ response.allowed),
                        Append(reviews, sar))

\* Faulty variant: the first failing review ends the call with its error.
RECURSIVE ReviewVerbsFailFast(_, _, _, _, _, _, _)
ReviewVerbsFailFast(cs, namespace, resource, verbs, i, results, reviews) ==
    IF i > Len(verbs)
    THEN [called |-> TRUE, isNil |-> FALSE, results |-> results, err |-> NoError,
          reviews |-> reviews]
    ELSE LET sar == [namespace |-> namespace, verb |-> verbs[i], resource |-> resource]
             response == Create(cs, sar)
         IN IF ~ response.err.nil
            THEN [called |-> TRUE, isNil |-> TRUE, results |-> EmptyMap, err |-> response.err,
                  reviews |-> Append(reviews, sar)]
            ELSE ReviewVerbsFailFast(cs, namespace, resource, verbs, i + 1,
                                     Put(results, verbs[i], response.allowed),
                                     Append(reviews, sar))

\* Faulty variant of CheckNamespacePermissions: fails with the first failing
\* review.
CheckNamespacePermissionsFailFast(u, namespace, resource, verbs) ==
    LET c == GetClientset(u)
    IN IF ~ c.err.nil \/ c.cs.isNil
       THEN [called |-> TRUE, isNil |-> TRUE, results |-> EmptyMap,
             err |-> Errorf("mock AuthUtil: no clientset", <<>>), reviews |-> <<>>]
       ELSE ReviewVerbsFailFast(c.cs, namespace, resource, verbs, 1, EmptyMap, <<>>)

\* AuthUtil.CheckNamespacePermissions without CheckNamespacePermissionsFunc
CheckNamespacePermissions(u, namespace, resource, verbs) ==
    LET c == GetClientset(u)
    IN IF ~ c.err.nil
       THEN [called |-> TRUE, isNil |-> TRUE, results |-> EmptyMap,
             err |-> Errorf("mock AuthUtil: failed to get clientset for CheckNamespacePermissions: %w",
                            <<c.err>>),
             reviews |-> <<>>]
       ELSE IF c.cs.isNil
       THEN [called |-> TRUE, isNil |-> TRUE, results |-> EmptyMap,
             err |-> Errorf("mock AuthUtil: clientset is nil in CheckNamespacePermissions", <<>>),
             reviews |-> <<>>]
       ELSE ReviewVerbs(c.cs, namespace, resource, verbs, 1, EmptyMap, <<>>)

PermNamespaces == {"test-ns", "other-ns"}

PermResources == {"pods", "services", "secrets"}

VerbLists ==
    {<<>>, <<"get">>, <<"get", "list", "delete">>, <<"create", "get">>, <<"get", "get">>,
     <<"list", "get", "list">>}

FailingVerbs == {{}, {"get"}, {"list"}, {"get", "list"}}

Clientsets ==
    {NilClientset} \cup [isNil : {FALSE}, reactor : {TRUE}, failing : FailingVerbs]

InitPermissions ==
    /\ authUtil \in [clientset : Clientsets,
                     GetClientsetFunc : {Nil, "fail", "nil clientset"},
                     CheckNamespacePermissionsFunc : {Nil, "override"}]
    /\ permArgs \in [namespace : PermNamespaces, resource : PermResources, verbs : VerbLists]
    /\ permOut = NoPermissions
    /\ IdleResolve
    /\ IdleConfigMap
    /\ IdleLoad
    /\ IdleProduct
    /\ IdleBackup
    /\ IdleBackupctl
    /\ IdleValues
    /\ IdleHelm

\* CheckNamespacePermissions with CheckNamespacePermissionsFunc installed
CallCheckNamespacePermissionsFunc ==
    /\ ~ permOut.called
    /\ authUtil.CheckNamespacePermissionsFunc # Nil
    /\ permOut' \in CheckNamespacePermissionsFuncResults
    /\ UNCHANGED <<authUtil, permArgs, libVars, backupVars, backupctlVars, valuesVars, helmVars>>

CallCheckNamespacePermissions ==
    /\ ~ permOut.called
    /\ authUtil.CheckNamespacePermissionsFunc = Nil
    /\ permOut' = CheckNamespacePermissions(authUtil, permArgs.namespace, permArgs.resource,
                                            permArgs.verbs)
    /\ UNCHANGED <<authUtil, permArgs, libVars, backupVars, backupctlVars, valuesVars, helmVars>>

NextPermissions ==
    \/ CallCheckNamespacePermissionsFunc
    \/ CallCheckNamespacePermissions

SpecPermissions == InitPermissions /\ [][NextPermissions]_vars

(***************************************************************************)
(* Properties of CheckNamespacePermissions.                                *)
(***************************************************************************)
\* The built-in logic ran on a clientset.
BuiltInPermissions ==
    /\ permOut.called
    /\ authUtil.CheckNamespacePermissionsFunc = Nil
    /\ authUtil.GetClientsetFunc = Nil

\* C22: with no function field installed, CheckNamespacePermissions returns no
\* error and a map whose keys are exactly the requested verbs; the value of a
\* verb is true if and only if the access review for the namespace, the
\* resource and the verb succeeded and was allowed, so a failing review gives
\* false for its verb only.
C22_OneEntryPerVerb ==
    BuiltInPermissions =>
        LET cs == GetClientset(authUtil).cs
        IN /\ permOut.err.nil
           /\ ~ permOut.isNil
           /\ DOMAIN permOut.results = {permArgs.verbs[i] : i \in DOMAIN permArgs.verbs}
           /\ \A verb \in DOMAIN permOut.results :
                permOut.results[verb] <=>
                    /\ verb \notin cs.failing
                    /\ cs.reactor
                    /\ ReactorAllows(permArgs.namespace, permArgs.resource, verb)

\* A call whose review of get failed while its review of delete was allowed.
C22_Witness ==
    /\ BuiltInPermissions
    /\ permArgs.verbs = <<"get", "list", "delete">>
    /\ "get" \in authUtil.clientset.failing
    /\ permOut.results["delete"]
    /\ ~ permOut.results["get"]

(***************************************************************************)
(* Load called by several goroutines on one memory.  A call advances line   *)
(* by line; between two of its steps the other calls may run, and a caller  *)
(* may write to the maps of the LoadedConfig it got back.                   *)
(***************************************************************************)
Goroutines == {"g1", "g2"}

\* The values behind the exported maps of a LoadedConfig.
Contents(h, l) ==
    [Main |-> Deref(h, l.Main),
     DatabaseConfigs |-> [k \in DOMAIN Deref(h, l.DatabaseConfigs) |->
                             Deref(h, Deref(h, l.DatabaseConfigs)[k])],
     Metadata |-> Deref(h, l.Metadata)]

NoContents == [Main |-> EmptyMap, DatabaseConfigs |-> EmptyMap, Metadata |-> EmptyMap]

LoadOptions == {o \in OptionValues : o.BasePath = "" /\ o.CustomFilePaths = <<>>}

InitLoads ==
    /\ goHeap = <<>>
    /\ loads \in [Goroutines -> [pc : {"line 50"}, opts : LoadOptions, t : {""},
                                 lc : {NilLoadedConfig}, returned : {NoContents},
                                 written : {{}}]]
    /\ opts = NoOptions
    /\ files = EmptyMap
    /\ now = ""
    /\ lheap = <<>>
    /\ lc = NilLoadedConfig
    /\ loadErr = Nil
    /\ loadPc = "idle"
    /\ jsonOut = NoJSON
    /\ mapOut = NoMap
    /\ saveOut = NoSave
    /\ disk = EmptyDisk
    /\ IdleResolve
    /\ IdleConfigMap
    /\ IdleProduct
    /\ IdleTools

\* lc := newLoadedConfig(opts)
StepNewLoadedConfig(g) ==
    /\ loads[g].pc = "line 50"
    /\ LET a == newLoadedConfig(goHeap, loads[g].opts)
       IN /\ goHeap' = a.heap
          /\ loads' = [loads EXCEPT ![g].lc = a.lc, ![g].pc = "line 51"]
    /\ UNCHANGED <<resolveVars, configMapVars, loadVars, productVars, toolVars>>

\* lc.Main[...] = ...
StepMain(g) ==
    /\ loads[g].pc = "line 51"
    /\ goHeap' = LoadMain(goHeap, loads[g].lc)
    /\ loads' = [loads EXCEPT ![g].pc = "line 55"]
    /\ UNCHANGED <<resolveVars, configMapVars, loadVars, productVars, toolVars>>

\* lc.DatabaseConfigs["mockdb"] = ...
StepDatabaseConfigs(g) ==
    /\ loads[g].pc = "line 55"
    /\ goHeap' = LoadDatabaseConfigs(goHeap, loads[g].lc)
    /\ loads' = [loads EXCEPT ![g].pc = "line 61"]
    /\ UNCHANGED <<resolveVars, configMapVars, loadVars, productVars, toolVars>>

\* lc.Metadata[...] = ...
StepMetadata(g) ==
    /\ loads[g].pc = "line 61"
    /\ \E t \in Timestamps :
          /\ goHeap' = LoadMetadata(goHeap, loads[g].lc, t)
          /\ loads' = [loads EXCEPT ![g].t = t, ![g].pc = "line 65"]
    /\ UNCHANGED <<resolveVars, configMapVars, loadVars, productVars, toolVars>>

\* lc.Main = resolveConfigMap(lc.rawMainConfig, lc.Main, ...)
StepResolveMain(g) ==
    /\ loads[g].pc = "line 65"
    /\ LET r == LoadResolveMain(goHeap, loads[g].lc)
       IN /\ goHeap' = r.heap
          /\ loads' = [loads EXCEPT ![g].lc = r.lc, ![g].pc = "line 66"]
    /\ UNCHANGED <<resolveVars, configMapVars, loadVars, productVars, toolVars>>

\* the loop over lc.rawDatabaseConfigs, and return lc, nil
StepReturn(g) ==
    /\ loads[g].pc = "line 66"
    /\ LET h == LoadResolveDatabaseConfigs(goHeap, loads[g].lc)
       IN /\ goHeap' = h
          /\ loads' = [loads EXCEPT ![g].returned = Contents(h, loads[g].lc),
                                    ![g].pc = "returned"]
    /\ UNCHANGED <<resolveVars, configMapVars, loadVars, productVars, toolVars>>

\* The caller writes to a map of the LoadedConfig it got back.
WriteToResult(g) ==
    /\ loads[g].pc = "returned"
    /\ \E field \in {"Main", "DatabaseConfigs", "Metadata"} \ loads[g].written :
          /\ goHeap' =
                IF field = "Main"
                THEN [goHeap EXCEPT ![loads[g].lc.Main] = Put(@, sMockKeyMain, sAnotherValue)]
                ELSE IF field = "Metadata"
                THEN [goHeap EXCEPT ![loads[g].lc.Metadata] =
                         Put(@, "source_type", StringValue("changed"))]
                ELSE IF sMockdb \in DOMAIN goHeap[loads[g].lc.DatabaseConfigs]
                THEN [goHeap EXCEPT ![goHeap[loads[g].lc.DatabaseConfigs][sMockdb]] =
                         Put(@, sHost, sAnotherValue)]
                ELSE LET hh == Append(goHeap, (sHost :> sAnotherValue))
                     IN [hh EXCEPT ![loads[g].lc.DatabaseConfigs] = Put(@, sMockdb, Len(hh))]
          /\ loads' = [loads EXCEPT ![g].written = @ \cup {field}]
    /\ UNCHANGED <<resolveVars, configMapVars, loadVars, productVars, toolVars>>

NextLoads ==
    \E g \in Goroutines :
        \/ StepNewLoadedConfig(g)
        \/ StepMain(g)
        \/ StepDatabaseConfigs(g)
        \/ StepMetadata(g)
        \/ StepResolveMain(g)
        \/ StepReturn(g)
        \/ WriteToResult(g)

SpecLoads == InitLoads /\ [][NextLoads]_vars

(***************************************************************************)
(* Properties of separate Load calls.                                      *)
(***************************************************************************)
\* The maps reachable from the exported fields of a LoadedConfig.
ExportedMaps(h, l) ==
    {l.Main, l.DatabaseConfigs, l.Metadata}
    \cup {Deref(h, l.DatabaseConfigs)[k] : k \in DOMAIN Deref(h, l.DatabaseConfigs)}

\* C23: the Main, DatabaseConfigs and Metadata maps of the results of two Load
\* calls are different maps; whatever the interleaving of the calls, a call
\* returns what it returns when it runs alone; and as long as its caller has
\* not written to it, a result keeps the contents it was returned with,
\* whatever the other callers write to theirs.
C23_LoadsShareNothing ==
    \A g \in Goroutines :
        loads[g].pc = "returned" =>
            /\ loads[g].returned =
                  LET alone == Load(<<>>, loads[g].opts, loads[g].t)
                  IN Contents(alone.heap, alone.lc)
            /\ loads[g].written = {} => Contents(goHeap, loads[g].lc) = loads[g].returned
            /\ \A other \in Goroutines \ {g} :
                  loads[other].pc = "returned" =>
                      ExportedMaps(goHeap, loads[g].lc)
                          \cap ExportedMaps(goHeap, loads[other].lc) = {}

\* Two calls that ran interleaved, one caller having written to every map of
\* its result while the other has not touched its own.
C23_Witness ==
    /\ loads["g1"].pc = "returned"
    /\ loads["g2"].pc = "returned"
    /\ loads["g1"].written = {"Main", "DatabaseConfigs", "Metadata"}
    /\ loads["g2"].written = {}
    /\ loads["g1"].lc.Main > loads["g2"].lc.Metadata
    /\ loads["g1"].lc.Metadata < loads["g2"].lc.Main

(***************************************************************************)
(* FileSystemBackupManager: every method of a manager made by              *)
(* NewFileSystemBackupManager, with the function fields installed and      *)
(* removed between the calls.  backupLog holds the calls and the           *)
(* assignments to the function fields in the order they were made.         *)
(***************************************************************************)
\* NewFileSystemBackupManager(baseBackupPath, logger)
NewFileSystemBackupManager(baseBackupPath, logger) ==
    IF baseBackupPath = ""
    THEN [bm |-> NoBackupManager, err |-> Errorf("baseBackupPath cannot be empty", <<>>)]
    ELSE [bm |-> [NoBackupManager EXCEPT !.baseBackupPath = baseBackupPath,
                                         !.logger = logger],
          err |-> NoError]

ManagerFuncs ==
    {"BackupReleaseFunc", "ListBackupsFunc", "GetBackupDetailsFunc", "RestoreReleaseFunc",
     "UpgradeToBackupFunc", "DeleteBackupFunc", "PruneBackupsFunc"}

\* What the functions a test installs return.
BackupReleaseFuncResult == [backupID |-> "custom-backup-id", err |-> NoError]

ListBackupsFuncResult == CHOOSE r \in ListBackupsFuncResults : ~ r.err.nil

GetBackupDetailsFuncResult == CHOOSE r \in GetBackupDetailsFuncResults : r.err.nil

ReleaseFuncResult == CHOOSE r \in ReleaseFuncResults : r.err.nil

DeleteBackupFuncResult == Errorf("custom delete error", <<>>)

PruneBackupsFuncResult == CHOOSE r \in PruneBackupsFuncResults : ~ r.err.nil

\* Faulty variant: the backup made is remembered in the manager.
BackupReleaseRecording(m, releaseName, chartSourcePath, values) ==
    IF m.BackupReleaseFunc # Nil
    THEN [bm |-> m, backupID |-> BackupReleaseFuncResult.backupID,
          err |-> BackupReleaseFuncResult.err]
    ELSE IF releaseName = ""
    THEN [bm |-> m, backupID |-> "", err |-> Errorf("releaseName cannot be empty", <<>>)]
    ELSE IF chartSourcePath = ""
    THEN [bm |-> m, backupID |-> "", err |-> Errorf("chartSourcePath cannot be empty", <<>>)]
    ELSE [bm |-> [m EXCEPT !.ListBackupsFunc = "recorded"],
          backupID |-> "mock-backup-id-" \o releaseName, err |-> NoError]

\* m.BackupRelease(releaseName, chartSourcePath, values): the manager afterwards,
\* the returned backup id and the returned error.
BackupRelease(m, releaseName, chartSourcePath, values) ==
    IF m.BackupReleaseFunc # Nil
    THEN [bm |-> m, backupID |-> BackupReleaseFuncResult.backupID,
          err |-> BackupReleaseFuncResult.err]
    ELSE IF releaseName = ""
    THEN [bm |-> m, backupID |-> "", err |-> Errorf("releaseName cannot be empty", <<>>)]
    ELSE IF chartSourcePath = ""
    THEN [bm |-> m, backupID |-> "", err |-> Errorf("chartSourcePath cannot be empty", <<>>)]
    ELSE [bm |-> m, backupID |-> "mock-backup-id-" \o releaseName, err |-> NoError]

\* Faulty variant: DeleteBackupFunc is not consulted.
DeleteBackupBuiltInOnly(m, releaseName, backupID) ==
    IF releaseName = "non-existent-release-del" \/ backupID = "non-existent-id-del"
    THEN [bm |-> m, err |-> Errorf("mock error: backup not found for deletion", <<>>)]
    ELSE [bm |-> m, err |-> NoError]

\* m.DeleteBackup(releaseName, backupID): the manager afterwards and the
\* returned error.
DeleteBackup(m, releaseName, backupID) ==
    IF m.DeleteBackupFunc # Nil THEN [bm |-> m, err |-> DeleteBackupFuncResult]
    ELSE IF releaseName = "non-existent-release-del" \/ backupID = "non-existent-id-del"
    THEN [bm |-> m, err |-> Errorf("mock error: backup not found for deletion", <<>>)]
    ELSE [bm |-> m, err |-> NoError]

\* m.GetBackupDetails(releaseName, backupID) at the time t
ManagerGetBackupDetails(m, releaseName, backupID, t) ==
    IF m.GetBackupDetailsFunc # Nil THEN GetBackupDetailsFuncResult
    ELSE GetBackupDetails(releaseName, backupID, t)

\* m.ListBackups(releaseName) at the time t
ManagerListBackups(m, releaseName, t) ==
    IF m.ListBackupsFunc # Nil THEN ListBackupsFuncResult ELSE ListBackups(releaseName, t)

\* m.PruneBackups(releaseName, keepCount)
ManagerPruneBackups(m, releaseName, keepCount) ==
    IF m.PruneBackupsFunc # Nil THEN PruneBackupsFuncResult
    ELSE PruneBackups(releaseName, keepCount)

\* m.RestoreRelease(ctx, helmClient, namespace, releaseName, backupID,
\* createNamespace, wait, timeout) at the time t
ManagerRestoreRelease(m, h, namespace, releaseName, backupID, createNamespace, wait, t) ==
    IF m.RestoreReleaseFunc # Nil
    THEN [helmClient |-> h, rel |-> ReleaseFuncResult.rel, err |-> ReleaseFuncResult.err]
    ELSE RestoreRelease(m, h, ManagerGetBackupDetails(m, releaseName, backupID, t),
                        namespace, releaseName, createNamespace, wait)

\* m.UpgradeToBackup(ctx, helmClient, namespace, releaseName, backupID, wait,
\* timeout, force) at the time t
ManagerUpgradeToBackup(m, h, namespace, releaseName, backupID, wait, force, t) ==
    IF m.UpgradeToBackupFunc # Nil
    THEN [helmClient |-> h, rel |-> ReleaseFuncResult.rel, err |-> ReleaseFuncResult.err]
    ELSE UpgradeToBackup(h, ManagerGetBackupDetails(m, releaseName, backupID, t), namespace,
                         releaseName, wait, force)

\* An entry of backupLog: an assignment to a function field (fn = "set") or a
\* call of a method with its arguments, its results, the calls it made to the
\* Helm client and its time.
NoDetails ==
    [chartPath |-> <<>>, valuesFilePath |-> <<>>, metadata |-> NoMetadata, err |-> NoError]

NoEvent ==
    [fn |-> "", field |-> "", func |-> Nil, releaseName |-> "", backupID |-> "",
     keepCount |-> 0, chartSourcePath |-> "", newBackupID |-> "", backups |-> <<>>,
     details |-> NoDetails, prunedCount |-> 0, rel |-> NilReleaseInfo, err |-> NoError,
     helmCalls |-> <<>>, t |-> 0]

\* The arguments of the calls followed.
BackupReleaseArgs ==
    {[releaseName |-> "myapp", chartSourcePath |-> "/charts/myapp"],
     [releaseName |-> "", chartSourcePath |-> "/charts/myapp"]}

ListBackupsArgs == {"list-test-release", "myapp"}

GetBackupDetailsArgs ==
    {[releaseName |-> "details-test-release", backupID |-> "some-backup-id"],
     [releaseName |-> "non-existent-release", backupID |-> "some-backup-id"]}

DeleteBackupArgs ==
    {[releaseName |-> "myapp", backupID |-> "some-backup-id"],
     [releaseName |-> "myapp", backupID |-> "non-existent-id-del"]}

PruneBackupsArgs ==
    {[releaseName |-> "prune-test-release", keepCount |-> 2],
     [releaseName |-> "myapp", keepCount |-> 1]}

RestoreArgs == [releaseName |-> "restore-test-release", backupID |-> "mock-restore-backup-id"]

UpgradeArgs == [releaseName |-> "upgrade-test-release", backupID |-> "mock-upgrade-backup-id"]

InitManager ==
    /\ bm = NewFileSystemBackupManager("backups", "log.Printf").bm
    /\ helmClient = NoHelmClient
    /\ restoreArgs = NoRestoreArgs
    /\ restoreOut = NoRestore
    /\ clock = 0
    /\ backupLog = <<>>
    /\ IdleResolve
    /\ IdleConfigMap
    /\ IdleLoad
    /\ IdleProduct
    /\ IdleBackupctl
    /\ IdleValues
    /\ IdleCluster

\* mgr.XxxFunc = func(...) {...}, and mgr.XxxFunc = nil
SetFunc ==
    /\ Len(backupLog) < MaxBackupCalls
    /\ \E field \in ManagerFuncs, f \in {Nil, "override"} :
          /\ bm[field] # f
          /\ bm' = [bm EXCEPT ![field] = f]
          /\ backupLog' = Append(backupLog, [NoEvent EXCEPT !.fn = "set", !.field = field,
                                                            !.func = f, !.t = clock])
    /\ clock' = clock + 1
    /\ UNCHANGED <<helmClient, restoreArgs, restoreOut, libVars, backupctlVars, valuesVars,
                   clusterVars>>

CallManagerBackupRelease ==
    /\ Len(backupLog) < MaxBackupCalls
    /\ \E a \in BackupReleaseArgs :
          LET r == BackupRelease(bm, a.releaseName, a.chartSourcePath, EmptyMap)
          IN /\ bm' = r.bm
             /\ backupLog' = Append(backupLog,
                                    [NoEvent EXCEPT !.fn = "BackupRelease",
                                                    !.releaseName = a.releaseName,
                                                    !.chartSourcePath = a.chartSourcePath,
                                                    !.newBackupID = r.backupID,
                                                    !.err = r.err, !.t = clock])
    /\ clock' = clock + 1
    /\ UNCHANGED <<helmClient, restoreArgs, restoreOut, libVars, backupctlVars, valuesVars,
                   clusterVars>>

CallManagerListBackups ==
    /\ Len(backupLog) < MaxBackupCalls
    /\ \E releaseName \in ListBackupsArgs :
          LET r == ManagerListBackups(bm, releaseName, clock)
          IN backupLog' = Append(backupLog,
                                 [NoEvent EXCEPT !.fn = "ListBackups",
                                                 !.releaseName = releaseName,
                                                 !.backups = r.backups, !.err = r.err,
                                                 !.t = clock])
    /\ clock' = clock + 1
    /\ UNCHANGED <<bm, helmClient, restoreArgs, restoreOut, libVars, backupctlVars,
                   valuesVars, clusterVars>>

CallManagerGetBackupDetails ==
    /\ Len(backupLog) < MaxBackupCalls
    /\ \E a \in GetBackupDetailsArgs :
          LET r == ManagerGetBackupDetails(bm, a.releaseName, a.backupID, clock)
          IN backupLog' = Append(backupLog,
                                 [NoEvent EXCEPT !.fn = "GetBackupDetails",
                                                 !.releaseName = a.releaseName,
                                                 !.backupID = a.backupID,
                                                 !.details = r, !.err = r.err, !.t = clock])
    /\ clock' = clock + 1
    /\ UNCHANGED <<bm, helmClient, restoreArgs, restoreOut, libVars, backupctlVars,
                   valuesVars, clusterVars>>

CallManagerDeleteBackup ==
    /\ Len(backupLog) < MaxBackupCalls
    /\ \E a \in DeleteBackupArgs :
          LET r == DeleteBackup(bm, a.releaseName, a.backupID)
          IN /\ bm' = r.bm
             /\ backupLog' = Append(backupLog,
                                    [NoEvent EXCEPT !.fn = "DeleteBackup",
                                                    !.releaseName = a.releaseName,
                                                    !.backupID = a.backupID,
                                                    !.err = r.err, !.t = clock])
    /\ clock' = clock + 1
    /\ UNCHANGED <<helmClient, restoreArgs, restoreOut, libVars, backupctlVars, valuesVars,
                   clusterVars>>

CallManagerPruneBackups ==
    /\ Len(backupLog) < MaxBackupCalls
    /\ \E a \in PruneBackupsArgs :
          LET r == ManagerPruneBackups(bm, a.releaseName, a.keepCount)
          IN backupLog' = Append(backupLog,
                                 [NoEvent EXCEPT !.fn = "PruneBackups",
                                                 !.releaseName = a.releaseName,
                                                 !.keepCount = a.keepCount,
                                                 !.prunedCount = r.prunedCount,
                                                 !.err = r.err, !.t = clock])
    /\ clock' = clock + 1
    /\ UNCHANGED <<bm, helmClient, restoreArgs, restoreOut, libVars, backupctlVars,
                   valuesVars, clusterVars>>

CallManagerRestoreRelease ==
    /\ Len(backupLog) < MaxBackupCalls
    /\ LET a == RestoreArgs
           r == ManagerRestoreRelease(bm, helmClient, "test-ns", a.releaseName, a.backupID,
                                      TRUE, FALSE, clock)
       IN /\ helmClient' = r.helmClient
          /\ backupLog' = Append(backupLog,
                                 [NoEvent EXCEPT !.fn = "RestoreRelease",
                                                 !.releaseName = a.releaseName,
                                                 !.backupID = a.backupID,
                                                 !.rel = r.rel, !.err = r.err,
                                                 !.helmCalls =
                                                     SubSeq(r.helmClient.calls,
                                                            Len(helmClient.calls) + 1,
                                                            Len(r.helmClient.calls)),
                                                 !.t = clock])
    /\ clock' = clock + 1
    /\ UNCHANGED <<bm, restoreArgs, restoreOut, libVars, backupctlVars, valuesVars,
                   clusterVars>>

CallManagerUpgradeToBackup ==
    /\ Len(backupLog) < MaxBackupCalls
    /\ LET a == UpgradeArgs
           r == ManagerUpgradeToBackup(bm, helmClient, "test-ns-upgrade", a.releaseName,
                                       a.backupID, TRUE, TRUE, clock)
       IN /\ helmClient' = r.helmClient
          /\ backupLog' = Append(backupLog,
                                 [NoEvent EXCEPT !.fn = "UpgradeToBackup",
                                                 !.releaseName = a.releaseName,
                                                 !.backupID = a.backupID,
                                                 !.rel = r.rel, !.err = r.err,
                                                 !.helmCalls =
                                                     SubSeq(r.helmClient.calls,
                                                            Len(helmClient.calls) + 1,
                                                            Len(r.helmClient.calls)),
                                                 !.t = clock])
    /\ clock' = clock + 1
    /\ UNCHANGED <<bm, restoreArgs, restoreOut, libVars, backupctlVars, valuesVars,
                   clusterVars>>

NextManager ==
    \/ SetFunc
    \/ CallManagerBackupRelease
    \/ CallManagerListBackups
    \/ CallManagerGetBackupDetails
    \/ CallManagerDeleteBackup
    \/ CallManagerPruneBackups
    \/ CallManagerRestoreRelease
    \/ CallManagerUpgradeToBackup

SpecManager == InitManager /\ [][NextManager]_vars

(***************************************************************************)
(* Properties of the function fields and of the state of the manager.      *)
(***************************************************************************)
\* The function field a method consults.
FuncOf(fn) ==
    CASE fn = "BackupRelease" -> "BackupReleaseFunc"
      [] fn = "ListBackups" -> "ListBackupsFunc"
      [] fn = "GetBackupDetails" -> "GetBackupDetailsFunc"
      [] fn = "RestoreRelease" -> "RestoreReleaseFunc"
      [] fn = "UpgradeToBackup" -> "UpgradeToBackupFunc"
      [] fn = "DeleteBackup" -> "DeleteBackupFunc"
      [] fn = "PruneBackups" -> "PruneBackupsFunc"

\* The assignments to a function field made before the i-th entry of the log,
\* and the function the field holds at that entry.
SetsBefore(i, field) ==
    {j \in 1..(i - 1) : backupLog[j].fn = "set" /\ backupLog[j].field = field}

FuncAt(i, field) ==
    IF SetsBefore(i, field) = {} THEN Nil
    ELSE LET last == CHOOSE j \in SetsBefore(i, field) :
                        \A k \in SetsBefore(i, field) : k <= j
         IN backupLog[last].func

\* What the function of a test gives for the call e, and what the built-in
\* logic of the method gives for it, as the results of an entry of the log.
Results(e) ==
    [newBackupID |-> e.newBackupID, backups |-> e.backups, details |-> e.details,
     prunedCount |-> e.prunedCount, rel |-> e.rel, err |-> e.err]

NoResults == Results(NoEvent)

FuncResults(fn) ==
    CASE fn = "BackupRelease" ->
            [NoResults EXCEPT !.newBackupID = BackupReleaseFuncResult.backupID,
                              !.err = BackupReleaseFuncResult.err]
      [] fn = "ListBackups" ->
            [NoResults EXCEPT !.backups = ListBackupsFuncResult.backups,
                              !.err = ListBackupsFuncResult.err]
      [] fn = "GetBackupDetails" ->
            [NoResults EXCEPT !.details = GetBackupDetailsFuncResult,
                              !.err = GetBackupDetailsFuncResult.err]
      [] fn \in {"RestoreRelease", "UpgradeToBackup"} ->
            [NoResults EXCEPT !.rel = ReleaseFuncResult.rel, !.err = ReleaseFuncResult.err]
      [] fn = "DeleteBackup" -> [NoResults EXCEPT !.err = DeleteBackupFuncResult]
      [] fn = "PruneBackups" ->
            [NoResults EXCEPT !.prunedCount = PruneBackupsFuncResult.prunedCount,
                              !.err = PruneBackupsFuncResult.err]

\* The built-in result of the call e on a manager whose GetBackupDetailsFunc is
\* detailsFunc and which has no other function installed.
BuiltInResults(e, detailsFunc) ==
    LET fresh == [NewFileSystemBackupManager("backups", "log.Printf").bm
                     EXCEPT !.GetBackupDetailsFunc = detailsFunc]
    IN CASE e.fn = "BackupRelease" ->
               LET r == BackupRelease(fresh, e.releaseName, e.chartSourcePath, EmptyMap)
               IN [NoResults EXCEPT !.newBackupID = r.backupID, !.err = r.err]
         [] e.fn = "ListBackups" ->
               LET r == ListBackups(e.releaseName, e.t)
               IN [NoResults EXCEPT !.backups = r.backups, !.err = r.err]
         [] e.fn = "GetBackupDetails" ->
               LET r == GetBackupDetails(e.releaseName, e.backupID, e.t)
               IN [NoResults EXCEPT !.details = r, !.err = r.err]
         [] e.fn = "RestoreRelease" ->
               LET r == ManagerRestoreRelease(fresh, NoHelmClient, "test-ns", e.releaseName,
                                              e.backupID, TRUE, FALSE, e.t)
               IN [NoResults EXCEPT !.rel = r.rel, !.err = r.err]
         [] e.fn = "UpgradeToBackup" ->
               LET r == ManagerUpgradeToBackup(fresh, NoHelmClient, "test-ns-upgrade",
                                               e.releaseName, e.backupID, TRUE, TRUE, e.t)
               IN [NoResults EXCEPT !.rel = r.rel, !.err = r.err]
         [] e.fn = "DeleteBackup" ->
               [NoResults EXCEPT !.err = DeleteBackup(fresh, e.releaseName, e.backupID).err]
         [] e.fn = "PruneBackups" ->
               LET r == PruneBackups(e.releaseName, e.keepCount)
               IN [NoResults EXCEPT !.prunedCount = r.prunedCount, !.err = r.err]

\* C24: a method called while its function field holds a function returns what
\* that function returns and makes no call to the Helm client; a method called
\* while its field is nil, whatever was assigned to the field before, returns
\* what the built-in logic returns on a manager that never had a function in
\* that field.
C24_OverrideDelegation ==
    \A i \in DOMAIN backupLog :
        LET e == backupLog[i]
        IN e.fn # "set" =>
              IF FuncAt(i, FuncOf(e.fn)) # Nil
              THEN Results(e) = FuncResults(e.fn) /\ e.helmCalls = <<>>
              ELSE Results(e) = BuiltInResults(e, FuncAt(i, "GetBackupDetailsFunc"))

\* ListBackupsFunc was installed and removed again, and ListBackups called
\* afterwards gave the three built-in backups.
C24_Witness ==
    /\ Len(backupLog) = 3
    /\ backupLog[1].fn = "set" /\ backupLog[1].field = "ListBackupsFunc"
    /\ backupLog[2].fn = "set" /\ backupLog[2].field = "ListBackupsFunc"
    /\ backupLog[2].func = Nil
    /\ backupLog[3].fn = "ListBackups"
    /\ Len(backupLog[3].backups) = 3

Init == InitResolve \/ InitConfigMap \/ InitLoad \/ InitProduct \/ InitRestore \/ InitBackups
    \/ InitBackupctl \/ InitValues \/ InitNewClient
    \/ InitPermissions \/ InitLoads \/ InitManager

Next == NextResolve \/ NextConfigMap \/ NextLoad \/ NextProduct \/ NextRestore \/ NextBackups
    \/ NextBackupctl \/ NextValues \/ NextNewClient
    \/ NextPermissions \/ NextLoads \/ NextManager

Spec == Init /\ [][Next]_vars

=============================================================================
